---- MODULE Spec2Model ----
(***************************************************************************)
(* Model of the hybrid retrieval core of Real-Estate-AI:                   *)
(*   src/src/hybrid_rag/router.py     QueryRouter                          *)
(*   src/src/hybrid_rag/fusion.py     HybridFusion                         *)
(*   src/src/hybrid_rag/retriever.py  AdaptiveRetriever                    *)
(* Query texts are TLA+ strings; the regular expressions of the router are *)
(* syntax trees interpreted by a backtracking matcher with the semantics   *)
(* of Python's re module.  Scores are exact rationals.                     *)
(***************************************************************************)
EXTENDS Integers, Sequences, FiniteSets, TLC

VARIABLES
    pc,               \* position of the modelled call
    query,            \* the query text handed to the router / retriever
    history,          \* conversation_history: sequence of [query |-> text]
    classification,   \* result of classify_query_comprehensive
    query_type,       \* retrieve's local query_type
    expanded_query,   \* retrieve's local expanded_query
    params,           \* retrieval parameters in use
    dense_results,    \* list returned by vector_store.search
    sparse_results,   \* list returned by sparse_retriever.search
    fused_results,    \* list returned by fuse_results
    filtered_results, \* list returned by _apply_dynamic_threshold
    result,           \* the object returned by retrieve
    searches,         \* the index searches issued so far, in order
    final_top_k       \* config['retrieval']['final_top_k']

vars == <<pc, query, history, classification, query_type, expanded_query, params, dense_results,
          sparse_results, fused_results, filtered_results, result, searches,
          final_top_k>>

(***************************************************************************)
(* Bounds of the model.                                                    *)
(***************************************************************************)
MaxWords == 2      \* words per classified query
MaxResults == 2    \* results returned by the two index searches together
MaxFused == 4      \* entries of a fused list handed to the escalator
MaxHistory == 1    \* entries of a conversation history

(***************************************************************************)
(* Characters and Python string methods.                                   *)
(***************************************************************************)
Ch(s, i) == SubSeq(s, i, i)

UpperLetters == "ABCDEFGHIJKLMNOPQRSTUVWXYZ"
LowerLetters == "abcdefghijklmnopqrstuvwxyz"
DigitChars == "0123456789"

CharSet(s) == {Ch(s, i) : i \in 1..Len(s)}

UpperSet == CharSet(UpperLetters)
LowerSet == CharSet(LowerLetters)
DigitSet == CharSet(DigitChars)
WordSet == UpperSet \cup LowerSet \cup DigitSet \cup {"_"}
SpaceSet == {" ", "\t", "\n", "\r", "\f"}

LowerChar(c) == IF c \in UpperSet
                THEN Ch(LowerLetters, CHOOSE i \in 1..Len(UpperLetters) : Ch(UpperLetters, i) = c)
                ELSE c
UpperChar(c) == IF c \in LowerSet
                THEN Ch(UpperLetters, CHOOSE i \in 1..Len(LowerLetters) : Ch(LowerLetters, i) = c)
                ELSE c

RECURSIVE lower(_)
lower(s) == IF s = "" THEN "" ELSE LowerChar(Ch(s, 1)) \o lower(SubSeq(s, 2, Len(s)))

RECURSIVE upper(_)
upper(s) == IF s = "" THEN "" ELSE UpperChar(Ch(s, 1)) \o upper(SubSeq(s, 2, Len(s)))

RECURSIVE strip(_)
strip(s) ==
    IF s = "" THEN ""
    ELSE IF Ch(s, 1) \in SpaceSet THEN strip(SubSeq(s, 2, Len(s)))
    ELSE IF Ch(s, Len(s)) \in SpaceSet THEN strip(SubSeq(s, 1, Len(s) - 1))
    ELSE s

isdigit(s) == s # "" /\ \A i \in 1..Len(s) : Ch(s, i) \in DigitSet

\* Python's `t in s` on strings.
contains(s, t) == \E i \in 1..(Len(s) - Len(t) + 1) : SubSeq(s, i, i + Len(t) - 1) = t

DigitVal(c) == CHOOSE d \in 0..9 : Ch(DigitChars, d + 1) = c

RECURSIVE int(_)
int(s) == IF s = "" THEN 0
          ELSE 10 * int(SubSeq(s, 1, Len(s) - 1)) + DigitVal(Ch(s, Len(s)))

(***************************************************************************)
(* Regular expressions: syntax trees and a backtracking matcher.           *)
(* MatchAt returns the end positions of the matches that start at i, in    *)
(* the order in which Python's re tries them.                              *)
(***************************************************************************)
Lit(s) == [t |-> "lit", s |-> s]
Alt(rs) == [t |-> "alt", rs |-> rs]
Cat(rs) == [t |-> "cat", rs |-> rs]
WB == [t |-> "wb"]
Cls(c) == [t |-> "cls", c |-> c]
Star(c) == [t |-> "star", c |-> c]
Lazy(c) == [t |-> "lazy", c |-> c]
Dot == Cls("any")
Digit == Cls("digit")
AnyStar == Star("any")
Opt(r) == Alt(<<r, Lit("")>>)
Plus(c) == Cat(<<Cls(c), Star(c)>>)
Rep(r, n) == Cat([k \in 1..n |-> r])
Lits(ws) == Alt([k \in 1..Len(ws) |-> Lit(ws[k])])
\* w? on the last character of w, e.g. floors?
OptLast(w) == Cat(<<Lit(SubSeq(w, 1, Len(w) - 1)), Opt(Lit(Ch(w, Len(w))))>>)
\* \b( ... )\b
Bounded(r) == Cat(<<WB, r, WB>>)
\* a.*b
Then(a, b) == Cat(<<a, AnyStar, b>>)

InClass(c, cls) ==
    CASE cls = "any" -> c # "\n"
      [] cls = "digit" -> c \in DigitSet
      [] cls = "word" -> c \in WordSet
      [] cls = "upper" -> c \in UpperSet
      [] cls = "lower" -> c \in LowerSet

IsWordBoundary(s, i) ==
    LET before == i > 1 /\ Ch(s, i - 1) \in WordSet
        after == i <= Len(s) /\ Ch(s, i) \in WordSet
    IN before # after

LitAt(l, s, i) == i + Len(l) - 1 <= Len(s) /\ SubSeq(s, i, i + Len(l) - 1) = l

RECURSIVE RunEnd(_, _, _)
RunEnd(s, i, cls) ==
    IF i <= Len(s) /\ InClass(Ch(s, i), cls) THEN RunEnd(s, i + 1, cls) ELSE i

RECURSIVE ConcatAll(_)
ConcatAll(ss) == IF ss = <<>> THEN <<>> ELSE Head(ss) \o ConcatAll(Tail(ss))

RECURSIVE MatchAt(_, _, _)
RECURSIVE MatchCat(_, _, _, _)
MatchAt(r, s, i) ==
    CASE r.t = "lit" -> IF LitAt(r.s, s, i) THEN <<i + Len(r.s)>> ELSE <<>>
      [] r.t = "cls" -> IF i <= Len(s) /\ InClass(Ch(s, i), r.c) THEN <<i + 1>> ELSE <<>>
      [] r.t = "wb" -> IF IsWordBoundary(s, i) THEN <<i>> ELSE <<>>
      [] r.t = "alt" -> ConcatAll([k \in 1..Len(r.rs) |-> MatchAt(r.rs[k], s, i)])
      [] r.t = "cat" -> MatchCat(r.rs, 1, s, i)
      [] r.t = "star" -> LET m == RunEnd(s, i, r.c)
                         IN [k \in 1..(m - i + 1) |-> m - k + 1]
      [] r.t = "lazy" -> LET m == RunEnd(s, i, r.c)
                         IN [k \in 1..(m - i + 1) |-> i + k - 1]

MatchCat(rs, k, s, i) ==
    IF k > Len(rs) THEN <<i>>
    ELSE LET ends == MatchAt(rs[k], s, i)
         IN ConcatAll([n \in 1..Len(ends) |-> MatchCat(rs, k + 1, s, ends[n])])

\* re.IGNORECASE: the pattern with its letters folded to lower case, to be matched
\* against the lower-cased text
RECURSIVE IgnoreCase(_)
IgnoreCase(r) ==
    CASE r.t = "lit" -> Lit(lower(r.s))
      [] r.t = "cls" -> IF r.c = "upper" THEN Cls("lower") ELSE r
      [] r.t = "alt" -> Alt([k \in 1..Len(r.rs) |-> IgnoreCase(r.rs[k])])
      [] r.t = "cat" -> Cat([k \in 1..Len(r.rs) |-> IgnoreCase(r.rs[k])])
      [] OTHER -> r

\* re.search(pattern, s) is not None
re_search(r, s) == \E i \in 1..(Len(s) + 1) : MatchAt(r, s, i) # <<>>

\* the spans <<begin, end>> (end exclusive) that re.findall / re.search scan, leftmost first
RECURSIVE FindFrom(_, _, _)
FindFrom(r, s, i) ==
    IF i > Len(s) + 1 THEN <<>>
    ELSE LET m == MatchAt(r, s, i)
         IN IF m = <<>> THEN FindFrom(r, s, i + 1)
            ELSE <<<<i, m[1]>>>> \o FindFrom(r, s, IF m[1] = i THEN i + 1 ELSE m[1])

\* the matched texts of s at the spans found in t (t is s, or s lower-cased)
Texts(s, spans) == [k \in 1..Len(spans) |-> SubSeq(s, spans[k][1], spans[k][2] - 1)]

\* re.findall for a pattern whose reported text is the whole match
re_findall(r, s) == Texts(s, FindFrom(r, s, 1))
\* the same with re.IGNORECASE, r being the folded pattern
re_findall_ignorecase(r, s) == Texts(s, FindFrom(r, lower(s), 1))

(***************************************************************************)
(* QueryRouter.query_patterns (router.py 13-132), in dictionary order.     *)
(***************************************************************************)
\* a named pattern and its re.IGNORECASE form
Pat(n, r) == [name |-> n, re |-> r, ire |-> IgnoreCase(r)]

\* [A-Z]{2}\d{13}
re_rera_id == Cat(<<Rep(Cls("upper"), 2), Rep(Digit, 13)>>)

ProjectNames == <<"MAULI DARSHAN", "Guru Vedas Residency", "Sai Dhaam", "GOLDEN HEIGHTS",
                  "Oxyzen", "15th Street Avenue", "CHAITANYA", "Birla Punya",
                  "Sigma Amber", "New Dwarka">>

\* "(.*?)"|\b(MAULI DARSHAN|...|New Dwarka)\b
re_project_name == Alt(<<Cat(<<Lit("\""), Lazy("any"), Lit("\"")>>), Bounded(Lits(ProjectNames))>>)


re_district == Bounded(Lits(<<"Mumbai", "Pune", "Thane", "Nashik", "Raigarh", "Mumbai Suburban",
                             "Pune City">>))
re_pincode == Bounded(Lits(<<"410206", "422004", "421601", "400098", "411009", "400092",
                            "411001">>))
re_project_name_ignorecase == IgnoreCase(re_project_name)
re_district_ignorecase == IgnoreCase(re_district)

\* (202[0-9])
Year202 == Cat(<<Lit("202"), Digit>>)

micro_details_patterns == <<
    \* \b(how many|what is|number of|count of|total)\b.*\b(floors?|units?|apartments?|buildings?|area|sqm|meters?)\b
    Pat("specific_numbers",
        Cat(<<WB, Lits(<<"how many", "what is", "number of", "count of", "total">>), WB, AnyStar, WB,
              Alt(<<OptLast("floors"), OptLast("units"), OptLast("apartments"), OptLast("buildings"),
                    Lit("area"), Lit("sqm"), OptLast("meters")>>), WB>>)),
    \* \b(exactly|precisely|specifically|detail|details?)\b
    Pat("exact_values",
        Bounded(Alt(<<Lit("exactly"), Lit("precisely"), Lit("specifically"), Lit("detail"),
                      OptLast("details")>>))),
    \* \b(each|every|individual|specific|particular)\b.*\b(building|wing|floor|unit)\b
    Pat("individual_items",
        Cat(<<WB, Lits(<<"each", "every", "individual", "specific", "particular">>), WB, AnyStar, WB,
              Lits(<<"building", "wing", "floor", "unit">>), WB>>)),
    \* \b(measurement|dimension|size|area|sqm|square meters?)\b
    Pat("measurement_queries",
        Bounded(Alt(<<Lit("measurement"), Lit("dimension"), Lit("size"), Lit("area"), Lit("sqm"),
                      OptLast("square meters")>>))) >>

location_micro_patterns == <<
    \* \b(latitude|longitude|coordinates?|gps|location pin)\b
    Pat("coordinate_queries",
        Bounded(Alt(<<Lit("latitude"), Lit("longitude"), OptLast("coordinates"), Lit("gps"),
                      Lit("location pin")>>))),
    \* \b(address|exact location|where exactly|precise location)\b
    Pat("address_queries",
        Bounded(Lits(<<"address", "exact location", "where exactly", "precise location">>))),
    \* \b(boundaries?|north|south|east|west|surrounding)\b
    Pat("boundary_queries",
        Bounded(Alt(<<OptLast("boundaries"), Lit("north"), Lit("south"), Lit("east"), Lit("west"),
                      Lit("surrounding")>>))) >>

structural_micro_patterns == <<
    \* \b(floors?|storeys?|levels?|basement|stilt|podium)\b
    Pat("floor_queries",
        Bounded(Alt(<<OptLast("floors"), OptLast("storeys"), OptLast("levels"), Lit("basement"),
                      Lit("stilt"), Lit("podium")>>))),
    \* \b(building|tower|wing)\b.*\b(\w+)\b
    Pat("building_specific",
        Cat(<<WB, Lits(<<"building", "tower", "wing">>), WB, AnyStar, WB, Plus("word"), WB>>)),
    \* \b(construction|completion|progress|status|cc issued)\b
    Pat("construction_queries",
        Bounded(Lits(<<"construction", "completion", "progress", "status", "cc issued">>))) >>

project_identification_patterns == <<
    Pat("rera_id", re_rera_id),
    Pat("project_name", re_project_name),
    \* project.*\b(\w+)\b|show.*projects.*\b(\w+)\b
    Pat("partial_name",
        Alt(<<Cat(<<Lit("project"), AnyStar, WB, Plus("word"), WB>>),
              Cat(<<Lit("show"), AnyStar, Lit("projects"), AnyStar, WB, Plus("word"), WB>>)>>)),
    \* \b(residential|commercial|mixed|mixed.use)\b
    Pat("project_type",
        Bounded(Alt(<<Lit("residential"), Lit("commercial"), Lit("mixed"),
                      Cat(<<Lit("mixed"), Dot, Lit("use")>>)>>))),
    \* \b(completed|ongoing|new|under.construction|ready|possession)\b
    Pat("status",
        Bounded(Alt(<<Lit("completed"), Lit("ongoing"), Lit("new"),
                      Cat(<<Lit("under"), Dot, Lit("construction")>>), Lit("ready"),
                      Lit("possession")>>))) >>

temporal_patterns == <<
    \* registered.*(202[0-9])|registration.*date
    Pat("registration_date",
        Alt(<<Then(Lit("registered"), Year202), Then(Lit("registration"), Lit("date"))>>)),
    \* completion.*(202[0-9])|complete.*by|possession.*date
    Pat("completion_date",
        Alt(<<Then(Lit("completion"), Year202), Then(Lit("complete"), Lit("by")),
              Then(Lit("possession"), Lit("date"))>>)),
    \* after.*(202[0-9])|before.*(202[0-9])|between.*(202[0-9]).*(202[0-9])
    Pat("date_range",
        Alt(<<Then(Lit("after"), Year202), Then(Lit("before"), Year202),
              Cat(<<Lit("between"), AnyStar, Year202, AnyStar, Year202>>)>>)),
    \* recent|new|latest|just.*registered
    Pat("recent",
        Alt(<<Lit("recent"), Lit("new"), Lit("latest"), Then(Lit("just"), Lit("registered"))>>)),
    \* extended|delayed|revised.*date
    Pat("extended",
        Alt(<<Lit("extended"), Lit("delayed"), Then(Lit("revised"), Lit("date"))>>)),
    \* expiring|nearing.*completion|upcoming
    Pat("expiring",
        Alt(<<Lit("expiring"), Then(Lit("nearing"), Lit("completion")), Lit("upcoming")>>)) >>

location_patterns == <<
    \* \b(Mumbai|Pune|Thane|Nashik|Raigarh|Mumbai Suburban|Pune City)\b
    Pat("district", re_district),
    \* \b(Panvel|Gadhinglaj|Shahapur|Borivali)\b
    Pat("taluka", Bounded(Lits(<<"Panvel", "Gadhinglaj", "Shahapur", "Borivali">>))),
    \* \b(410206|422004|421601|400098|411009|400092|411001)\b
    Pat("pincode", re_pincode),
    \* coordinates?|latitude|longitude|GPS|lat.*long
    Pat("coordinates",
        Alt(<<OptLast("coordinates"), Lit("latitude"), Lit("longitude"), Lit("GPS"),
              Then(Lit("lat"), Lit("long"))>>)),
    \* near|close to|within.*radius|distance.*from
    Pat("proximity",
        Alt(<<Lit("near"), Lit("close to"), Then(Lit("within"), Lit("radius")),
              Then(Lit("distance"), Lit("from"))>>)),
    \* \b(east|west|north|south|central)\b
    Pat("region", Bounded(Lits(<<"east", "west", "north", "south", "central">>))) >>

structural_patterns == <<
    \* floors?|storeys?|levels?
    Pat("floors", Alt(<<OptLast("floors"), OptLast("storeys"), OptLast("levels")>>)),
    \* buildings?|towers?|wings?
    Pat("buildings", Alt(<<OptLast("buildings"), OptLast("towers"), OptLast("wings")>>)),
    \* phase|stage
    Pat("phases", Lits(<<"phase", "stage">>)),
    \* basement|stilt|podium
    Pat("basement", Lits(<<"basement", "stilt", "podium">>)),
    \* multi.*tower|multiple.*building
    Pat("multi_tower",
        Alt(<<Then(Lit("multi"), Lit("tower")), Then(Lit("multiple"), Lit("building"))>>)) >>

units_patterns == <<
    \* sold|booked|occupied
    Pat("sold", Lits(<<"sold", "booked", "occupied">>)),
    \* unsold|available|vacant
    Pat("unsold", Lits(<<"unsold", "available", "vacant">>)),
    \* commercial|shop|office|retail
    Pat("commercial", Lits(<<"commercial", "shop", "office", "retail">>)),
    \* residential|flat|apartment|1BHK|2BHK|3BHK
    Pat("residential", Lits(<<"residential", "flat", "apartment", "1BHK", "2BHK", "3BHK">>)),
    \* rehab|reserved
    Pat("rehab", Lits(<<"rehab", "reserved">>)),
    \* sold.*out|fully.*sold
    Pat("sold_out", Alt(<<Then(Lit("sold"), Lit("out")), Then(Lit("fully"), Lit("sold"))>>)) >>

land_patterns == <<
    \* area|sqm|square.*meters|built.up|builtup
    Pat("area",
        Alt(<<Lit("area"), Lit("sqm"), Then(Lit("square"), Lit("meters")),
              Cat(<<Lit("built"), Dot, Lit("up")>>), Lit("builtup")>>)),
    \* plot|survey|CTS|FP.*number
    Pat("plot", Alt(<<Lit("plot"), Lit("survey"), Lit("CTS"), Then(Lit("FP"), Lit("number"))>>)),
    \* open.*space|garden|recreational
    Pat("open_space", Alt(<<Then(Lit("open"), Lit("space")), Lit("garden"), Lit("recreational")>>)),
    \* land.*area
    Pat("land_area", Then(Lit("land"), Lit("area"))),
    \* built.*up.*area|sanctioned.*area
    Pat("built_up",
        Alt(<<Cat(<<Lit("built"), AnyStar, Lit("up"), AnyStar, Lit("area")>>),
              Then(Lit("sanctioned"), Lit("area"))>>)) >>

promoter_patterns == <<
    \* \b(Guru Sai Developer|GM Infrastructure|Sai Construction|S Square Landmark|OVK CO OPERATIVE HOUSING SOCIETY LIMITED)\b
    Pat("promoter_name",
        Bounded(Lits(<<"Guru Sai Developer", "GM Infrastructure", "Sai Construction",
                       "S Square Landmark", "OVK CO OPERATIVE HOUSING SOCIETY LIMITED">>))),
    \* company|individual|LLP|partnership|society|co.operative
    Pat("promoter_type",
        Alt(<<Lit("company"), Lit("individual"), Lit("LLP"), Lit("partnership"), Lit("society"),
              Cat(<<Lit("co"), Dot, Lit("operative")>>)>>)),
    \* multiple.*projects|all.*projects.*by
    Pat("multiple_projects",
        Alt(<<Then(Lit("multiple"), Lit("projects")),
              Cat(<<Lit("all"), AnyStar, Lit("projects"), AnyStar, Lit("by")>>)>>)),
    \* promoter.*address|builder.*contact
    Pat("promoter_address",
        Alt(<<Then(Lit("promoter"), Lit("address")), Then(Lit("builder"), Lit("contact"))>>)) >>

legal_patterns == <<
    \* litigation|dispute|case|court
    Pat("litigation", Lits(<<"litigation", "dispute", "case", "court">>)),
    \* financial|encumbrance|mortgage|loan
    Pat("financial", Lits(<<"financial", "encumbrance", "mortgage", "loan">>)),
    \* extension|revised|delayed|extended
    Pat("extension", Lits(<<"extension", "revised", "delayed", "extended">>)),
    \* NOC|permission|approval
    Pat("noc", Lits(<<"NOC", "permission", "approval">>)) >>

analytical_patterns == <<
    \* compare|versus|vs|difference.*between
    Pat("compare",
        Alt(<<Lit("compare"), Lit("versus"), Lit("vs"), Then(Lit("difference"), Lit("between"))>>)),
    \* rank|top|best|largest|biggest|highest
    Pat("ranking", Lits(<<"rank", "top", "best", "largest", "biggest", "highest">>)),
    \* average|total|count|how many|sum|aggregate
    Pat("statistics", Lits(<<"average", "total", "count", "how many", "sum", "aggregate">>)),
    \* trend|analysis|over time|yearly|monthly
    Pat("trends", Lits(<<"trend", "analysis", "over time", "yearly", "monthly">>)),
    \* distribution|share|percentage
    Pat("distribution", Lits(<<"distribution", "share", "percentage">>)) >>

conversational_patterns == <<
    \* hello|hi|hey|good morning|good afternoon
    Pat("greeting", Lits(<<"hello", "hi", "hey", "good morning", "good afternoon">>)),
    \* help|support|what can you do
    Pat("help", Lits(<<"help", "support", "what can you do">>)),
    \* thank|thanks
    Pat("thanks", Lits(<<"thank", "thanks">>)),
    \* bye|goodbye|see you
    Pat("goodbye", Lits(<<"bye", "goodbye", "see you">>)) >>

numeric_patterns == <<
    \* more than|greater than|above|over
    Pat("greater_than", Lits(<<"more than", "greater than", "above", "over">>)),
    \* less than|below|under
    Pat("less_than", Lits(<<"less than", "below", "under">>)),
    \* between.*and
    Pat("range", Then(Lit("between"), Lit("and"))),
    \* top \d+|first \d+
    Pat("top_n", Alt(<<Cat(<<Lit("top "), Plus("digit")>>), Cat(<<Lit("first "), Plus("digit")>>)>>)) >>

query_patterns == <<
    [name |-> "micro_details", patterns |-> micro_details_patterns],
    [name |-> "location_micro", patterns |-> location_micro_patterns],
    [name |-> "structural_micro", patterns |-> structural_micro_patterns],
    [name |-> "project_identification", patterns |-> project_identification_patterns],
    [name |-> "temporal", patterns |-> temporal_patterns],
    [name |-> "location", patterns |-> location_patterns],
    [name |-> "structural", patterns |-> structural_patterns],
    [name |-> "units", patterns |-> units_patterns],
    [name |-> "land", patterns |-> land_patterns],
    [name |-> "promoter", patterns |-> promoter_patterns],
    [name |-> "legal", patterns |-> legal_patterns],
    [name |-> "analytical", patterns |-> analytical_patterns],
    [name |-> "conversational", patterns |-> conversational_patterns],
    [name |-> "numeric", patterns |-> numeric_patterns] >>

\* QueryRouter._detect_pattern: re.search(pattern, query, re.IGNORECASE) for any pattern
detect_pattern(q, patterns) ==
    LET text == lower(q)
    IN \E k \in 1..Len(patterns) : re_search(patterns[k].ire, text)


(***************************************************************************)
(* QueryRouter._extract_category_entities (router.py 201-249).  The entity *)
(* dictionary is a function whose domain is the set of keys present.       *)
(***************************************************************************)
\* 20[0-9]{2}
re_year == Cat(<<Lit("20"), Digit, Digit>>)
\* \b(\d+)\b
re_number == Cat(<<WB, Plus("digit"), WB>>)
\* top (\d+)
re_top == Cat(<<Lit("top "), Plus("digit")>>)

\* if matches: entities[key] = val
Entry(cond, key, val) == IF cond THEN key :> val ELSE <<>>
\* if matches: entities[key] = matches
EntryOf(key, matches) == Entry(matches # <<>>, key, matches)

\* [match[0] if match[0] else match[1] for match in name_matches if any(match)]
RECURSIVE project_name_values(_, _)
project_name_values(q, spans) ==
    IF spans = <<>> THEN <<>>
    ELSE LET b == spans[1][1]
             e == spans[1][2]
             text == IF Ch(q, b) = "\"" THEN SubSeq(q, b + 1, e - 2) ELSE SubSeq(q, b, e - 1)
         IN (IF text = "" THEN <<>> ELSE <<text>>) \o project_name_values(q, Tail(spans))

project_names_entry(q, name_matches) ==
    Entry(name_matches # <<>>, "project_names", project_name_values(q, name_matches))

project_identification_entities(q) ==
    EntryOf("rera_ids", re_findall(re_rera_id, q))
    @@ project_names_entry(q, FindFrom(re_project_name_ignorecase, lower(q), 1))

YearAt(q, p) == MatchAt(re_year, q, p) # <<>>

\* re.search(r'between.*(20[0-9]{2}).*(20[0-9]{2})', query, re.IGNORECASE): the two groups
\* the match starts at b with "between" and its groups start at p1 and p2
date_range_at(q, b, p1, p2) ==
    /\ LitAt("between", lower(q), b)
    /\ p1 >= b + 7 /\ p2 >= p1 + 4
    /\ YearAt(q, p1) /\ YearAt(q, p2)
    /\ p2 + 4 <= RunEnd(q, b + 7, "any")

Positions(q) == 1..(Len(q) + 1)
Greatest(S) == CHOOSE x \in S : \A y \in S : x >= y

\* the greedy .* take the last positions that still let the rest match
date_range_groups(q, p1, p2) == <<SubSeq(q, p1, p1 + 3), SubSeq(q, p2, p2 + 3)>>
date_range_second(q, b, p1) ==
    date_range_groups(q, p1, Greatest({p2 \in Positions(q) : date_range_at(q, b, p1, p2)}))
date_range_first(q, b) ==
    date_range_second(q, b, Greatest({p1 \in Positions(q) :
                                         \E p2 \in Positions(q) : date_range_at(q, b, p1, p2)}))
date_range_from(q, starts) ==
    IF starts = {} THEN <<>>
    ELSE date_range_first(q, CHOOSE b \in starts : \A y \in starts : b <= y)
date_range_match(q) ==
    date_range_from(q, {b \in Positions(q) :
                           \E p1 \in Positions(q), p2 \in Positions(q) :
                               date_range_at(q, b, p1, p2)})

temporal_entities(q) ==
    EntryOf("years", re_findall(re_year, q)) @@ EntryOf("date_range", date_range_match(q))

location_entities(q) ==
    EntryOf("districts", re_findall_ignorecase(re_district_ignorecase, q))
    @@ EntryOf("pincodes", re_findall(re_pincode, q))

numbers_entry(number_matches) ==
    Entry(number_matches # <<>>, "numbers",
          [k \in 1..Len(number_matches) |-> int(number_matches[k])])
top_n_entry(q, top_match) ==
    Entry(top_match # <<>>, "top_n", int(SubSeq(q, top_match[1][1] + 4, top_match[1][2] - 1)))

numeric_entities(q) ==
    numbers_entry(re_findall(re_number, q)) @@ top_n_entry(q, FindFrom(re_top, lower(q), 1))

extract_category_entities(q, category) ==
    CASE category = "project_identification" -> project_identification_entities(q)
      [] category = "temporal" -> temporal_entities(q)
      [] category = "location" -> location_entities(q)
      [] category = "numeric" -> numeric_entities(q)
      [] OTHER -> <<>>

(***************************************************************************)
(* QueryRouter._is_exact_match (router.py 251-267).                        *)
(***************************************************************************)
is_exact_match(q) ==
    LET query_clean == strip(upper(q))
    IN \/ re_search(re_rera_id, query_clean)
       \/ re_search(re_project_name, query_clean)
       \/ contains(q, "\"")

(***************************************************************************)
(* QueryRouter.classify_query_comprehensive (router.py 139-192).           *)
(***************************************************************************)
RECURSIVE detect_categories(_, _)
detect_categories(q, k) ==
    IF k > Len(query_patterns) THEN <<>>
    ELSE (IF detect_pattern(q, query_patterns[k].patterns)
          THEN <<query_patterns[k].name>> ELSE <<>>) \o detect_categories(q, k + 1)

RECURSIVE extract_entities(_, _)
extract_entities(q, cats) ==
    IF cats = <<>> THEN <<>>
    ELSE extract_category_entities(q, cats[Len(cats)])
         @@ extract_entities(q, SubSeq(cats, 1, Len(cats) - 1))

\* complexity factors in which analytical weighs 1
complexity_factor_analytical_as_one(cat) ==
    CASE cat = "analytical" -> 1
      [] cat = "numeric" -> 1
      [] cat = "compare" -> 2
      [] OTHER -> 0

\* complexity_factors.get(cat, 0)
complexity_factor(cat) ==
    CASE cat = "analytical" -> 2
      [] cat = "numeric" -> 1
      [] cat = "compare" -> 2
      [] OTHER -> 0

RECURSIVE sum_factors(_)
sum_factors(cats) ==
    IF cats = <<>> THEN 0 ELSE complexity_factor(Head(cats)) + sum_factors(Tail(cats))

complexity_of(cats) == sum_factors(cats) + (IF Len(cats) >= 2 THEN 1 ELSE 0)

InSeq(x, sq) == \E k \in 1..Len(sq) : sq[k] = x

ConversationalTerms == <<"hello", "hi", "hey", "thank", "bye">>

primary_type_of(q, cats, score) ==
    LET query_lower == strip(lower(q))
    IN IF \E k \in 1..Len(ConversationalTerms) : contains(query_lower, ConversationalTerms[k])
         THEN "conversational"
       ELSE IF score >= 2 \/ InSeq("analytical", cats) THEN "complex"
       ELSE IF is_exact_match(q) THEN "exact"
       ELSE IF cats # <<>> THEN "simple"
       ELSE "conversational"

classification_of(q, categories_detected, complexity_score) ==
    [primary_type |-> primary_type_of(q, categories_detected, complexity_score),
     categories |-> categories_detected,
     entities |-> extract_entities(q, categories_detected),
     intent |-> "information_retrieval",
     complexity_score |-> complexity_score]

classify_detected(q, categories_detected) ==
    classification_of(q, categories_detected, complexity_of(categories_detected))

classify_query_comprehensive(q) == classify_detected(q, detect_categories(q, 1))

\* QueryRouter.classify_query (router.py 134-137)
classify_query(q) == classify_query_comprehensive(q).primary_type


(***************************************************************************)
(* QueryRouter.get_retrieval_params and should_use_rag (router.py 269-312).*)
(* Floats are modelled as exact rationals <<numerator, denominator>>.      *)
(***************************************************************************)
Abs(n) == IF n < 0 THEN -n ELSE n

RECURSIVE GCD(_, _)
GCD(a, b) == IF b = 0 THEN a ELSE GCD(b, a % b)

Rat(n, d) == LET g == GCD(Abs(n), Abs(d))
                 sg == IF d < 0 THEN -1 ELSE 1
             IN <<(sg * n) \div g, (sg * d) \div g>>
Zero == <<0, 1>>
One == <<1, 1>>
Half == <<1, 2>>
RAdd(a, b) == Rat(a[1] * b[2] + b[1] * a[2], a[2] * b[2])
RSub(a, b) == Rat(a[1] * b[2] - b[1] * a[2], a[2] * b[2])
RMul(a, b) == Rat(a[1] * b[1], a[2] * b[2])
RDiv(a, b) == Rat(a[1] * b[2], a[2] * b[1])
RLe(a, b) == a[1] * b[2] <= b[1] * a[2]
RLt(a, b) == a[1] * b[2] < b[1] * a[2]
RGe(a, b) == RLe(b, a)

MicroCategories == <<"micro_details", "structural_micro", "location_micro">>

base_params ==
    [k |-> 15, score_threshold |-> <<3, 20>>, query_expansion |-> TRUE,
     dense_weight |-> <<3, 5>>, sparse_weight |-> <<2, 5>>, force_sparse |-> FALSE]

micro_params ==
    [base_params EXCEPT !.k = 20, !.score_threshold = <<1, 10>>,
                        !.dense_weight = <<4, 5>>, !.sparse_weight = <<1, 5>>]

\* get_retrieval_params without the micro-detail override (router.py 285-290)
get_retrieval_params_baseline_only(q) == base_params

\* parameters whose score_threshold is 0.0
get_retrieval_params_zero_threshold(q) == [base_params EXCEPT !.score_threshold = Zero]

get_retrieval_params(q) ==
    LET categories == classify_query_comprehensive(q).categories
    IN IF \E k \in 1..Len(MicroCategories) : InSeq(MicroCategories[k], categories)
       THEN micro_params ELSE base_params

RagTypes == {"exact", "simple", "complex"}

\* should_use_rag without the look at the last turn of the history (router.py 304-309)
should_use_rag_ignoring_history(q, conversation_history) ==
    classify_query(q) \in RagTypes

should_use_rag(q, conversation_history) ==
    LET primary_type == classify_query(q)
    IN IF primary_type \in RagTypes THEN TRUE
       ELSE IF primary_type = "conversational"
            THEN /\ conversation_history # <<>>
                 /\ classify_query(conversation_history[Len(conversation_history)].query)
                       \in RagTypes
       ELSE TRUE

(***************************************************************************)
(* HybridFusion (fusion.py).  A call that can raise returns a record       *)
(* [raised, value]: raised is TRUE when ZeroDivisionError escapes the call *)
(* and value is the returned list otherwise.  An absent dictionary key or  *)
(* Python None is the empty tuple.                                         *)
(***************************************************************************)
None == <<>>
Returned(v) == [raised |-> FALSE, value |-> v]
Raised == [raised |-> TRUE, value |-> <<>>]

RECURSIVE RMinOf(_)
RMinOf(xs) == IF Len(xs) = 1 THEN xs[1]
              ELSE LET m == RMinOf(Tail(xs)) IN IF RLe(xs[1], m) THEN xs[1] ELSE m

RECURSIVE RMaxOf(_)
RMaxOf(xs) == IF Len(xs) = 1 THEN xs[1]
              ELSE LET m == RMaxOf(Tail(xs)) IN IF RGe(xs[1], m) THEN xs[1] ELSE m

\* scores = [1 / (1 + score) for score in scores] (fusion.py 95)
invert_scores(scores) ==
    IF \E k \in 1..Len(scores) : RAdd(One, scores[k]) = Zero
    THEN Raised
    ELSE Returned([k \in 1..Len(scores) |-> RDiv(One, RAdd(One, scores[k]))])

\* a normalisation that gives 0.0 to scores that are all the same
min_max_equal_scores_to_zero(sc) ==
    LET min_score == RMinOf(sc)
        max_score == RMaxOf(sc)
    IN IF RLt(min_score, max_score)
       THEN [k \in 1..Len(sc) |-> RDiv(RSub(sc[k], min_score), RSub(max_score, min_score))]
       ELSE [k \in 1..Len(sc) |-> Zero]

\* fusion.py 97-104
min_max(sc) ==
    LET min_score == RMinOf(sc)
        max_score == RMaxOf(sc)
    IN IF RLt(min_score, max_score)
       THEN [k \in 1..Len(sc) |-> RDiv(RSub(sc[k], min_score), RSub(max_score, min_score))]
       ELSE [k \in 1..Len(sc) |-> One]

\* HybridFusion._robust_normalize (fusion.py 88-104)
robust_normalize(scores, invert) ==
    IF scores = <<>> THEN Returned(<<>>)
    ELSE IF invert
         THEN LET inv == invert_scores(scores)
              IN IF inv.raised THEN Raised ELSE Returned(min_max(inv.value))
    ELSE Returned(min_max(scores))

IndexOfDoc(fused, doc_id) ==
    IF \E k \in 1..Len(fused) : fused[k].doc_id = doc_id
    THEN CHOOSE k \in 1..Len(fused) : fused[k].doc_id = doc_id
    ELSE 0

\* an assignment that leaves the entry of a present key as it is
DictPut_keeping_the_first(fused, entry) ==
    IF IndexOfDoc(fused, entry.doc_id) = 0 THEN Append(fused, entry) ELSE fused

\* fused_results[doc_id] = entry: a present key keeps its position
DictPut(fused, entry) ==
    LET at == IndexOfDoc(fused, entry.doc_id)
    IN IF at = 0 THEN Append(fused, entry) ELSE [fused EXCEPT ![at] = entry]

\* fusion.py 37-49
dense_entry(res, dense_norm, dense_weight) ==
    [doc_id |-> res.document.doc_id,
     document |-> res.document,
     dense_score |-> dense_norm,
     sparse_score |-> Zero,
     combined_score |-> RMul(dense_norm, dense_weight),
     retrieval_types |-> <<"dense">>,
     raw_dense_score |-> res.score,
     raw_sparse_score |-> None,
     normalized_score |-> dense_norm]

RECURSIVE process_dense(_, _, _, _, _)
process_dense(fused, dense, norm, i, dense_weight) ==
    IF i > Len(dense) THEN fused
    ELSE process_dense(DictPut(fused, dense_entry(dense[i], norm[i], dense_weight)),
                       dense, norm, i + 1, dense_weight)

\* fusion.py 56-61
sparse_combine(entry, res, sparse_norm, sparse_weight) ==
    [entry EXCEPT !.sparse_score = sparse_norm,
                  !.combined_score = RAdd(entry.combined_score, RMul(sparse_norm, sparse_weight)),
                  !.retrieval_types = Append(entry.retrieval_types, "sparse"),
                  !.raw_sparse_score = res.score]

\* fusion.py 62-72
sparse_entry(res, sparse_norm, sparse_weight) ==
    [doc_id |-> res.document.doc_id,
     document |-> res.document,
     dense_score |-> Zero,
     sparse_score |-> sparse_norm,
     combined_score |-> RMul(sparse_norm, sparse_weight),
     retrieval_types |-> <<"sparse">>,
     raw_dense_score |-> None,
     raw_sparse_score |-> res.score,
     normalized_score |-> sparse_norm]

RECURSIVE process_sparse(_, _, _, _, _)
process_sparse(fused, sparse, norm, i, sparse_weight) ==
    IF i > Len(sparse) THEN fused
    ELSE LET at == IndexOfDoc(fused, sparse[i].document.doc_id)
             next == IF at # 0
                     THEN [fused EXCEPT ![at] = sparse_combine(fused[at], sparse[i], norm[i],
                                                               sparse_weight)]
                     ELSE Append(fused, sparse_entry(sparse[i], norm[i], sparse_weight))
         IN process_sparse(next, sparse, norm, i + 1, sparse_weight)

\* list.sort(key, reverse=True): stable, descending by key
RECURSIVE InsertDesc(_, _, _)
InsertDesc(sorted, e, key) ==
    IF sorted = <<>> THEN <<e>>
    ELSE IF RLt(sorted[Len(sorted)][key], e[key])
         THEN Append(InsertDesc(SubSeq(sorted, 1, Len(sorted) - 1), e, key), sorted[Len(sorted)])
         ELSE Append(sorted, e)

RECURSIVE SortDesc(_, _)
SortDesc(xs, key) ==
    IF xs = <<>> THEN <<>>
    ELSE InsertDesc(SortDesc(SubSeq(xs, 1, Len(xs) - 1), key), xs[Len(xs)], key)

\* the fusion without the sort of fusion.py 75-76
enhanced_weighted_fusion_unsorted(dense, sparse, dense_weight, sparse_weight) ==
    LET dense_normalized == robust_normalize([k \in 1..Len(dense) |-> dense[k].score], TRUE)
        sparse_normalized == robust_normalize([k \in 1..Len(sparse) |-> sparse[k].score], FALSE)
    IN IF dense_normalized.raised THEN Raised
       ELSE LET final_results == process_sparse(
                              process_dense(<<>>, dense, dense_normalized.value, 1, dense_weight),
                              sparse, sparse_normalized.value, 1, sparse_weight)
                final_normalized == robust_normalize(
                    [k \in 1..Len(final_results) |-> final_results[k].combined_score], FALSE)
            IN Returned([k \in 1..Len(final_results) |->
                  [final_results[k] EXCEPT !.normalized_score = final_normalized.value[k]]])

\* HybridFusion._enhanced_weighted_fusion (fusion.py 23-86)
enhanced_weighted_fusion(dense, sparse, dense_weight, sparse_weight) ==
    LET dense_normalized == robust_normalize([k \in 1..Len(dense) |-> dense[k].score], TRUE)
        sparse_normalized == robust_normalize([k \in 1..Len(sparse) |-> sparse[k].score], FALSE)
    IN IF dense_normalized.raised THEN Raised
       ELSE LET merged == process_sparse(
                              process_dense(<<>>, dense, dense_normalized.value, 1, dense_weight),
                              sparse, sparse_normalized.value, 1, sparse_weight)
                final_results == SortDesc(merged, "combined_score")
                final_normalized == robust_normalize(
                    [k \in 1..Len(final_results) |-> final_results[k].combined_score], FALSE)
            IN Returned([k \in 1..Len(final_results) |->
                  [final_results[k] EXCEPT !.normalized_score = final_normalized.value[k]]])

\* HybridFusion.fuse_results (fusion.py 11-21)
fuse_results(dense, sparse, retrieval_params) ==
    enhanced_weighted_fusion(dense, sparse, retrieval_params.dense_weight,
                             retrieval_params.sparse_weight)


(***************************************************************************)
(* AdaptiveRetriever (retriever.py).                                       *)
(***************************************************************************)
\* fine_grained_terms (retriever.py 119-125)
fine_grained_terms(category) ==
    CASE category = "structural" ->
           <<"floors", "storeys", "levels", "building", "tower", "wing", "basement", "stilt">>
      [] category = "units" ->
           <<"apartments", "flats", "units", "sold", "unsold", "commercial", "residential",
             "inventory">>
      [] category = "land" ->
           <<"area", "sqm", "square meters", "builtup", "plot", "survey", "land area">>
      [] category = "numeric" ->
           <<"number", "count", "total", "more than", "less than", "units", "flats">>
      [] category = "location" ->
           <<"address", "location", "district", "taluka", "village", "pincode", "coordinates">>
      [] OTHER -> <<>>

RECURSIVE expansion_terms(_)
expansion_terms(categories) ==
    IF categories = <<>> THEN <<>>
    ELSE fine_grained_terms(Head(categories)) \o expansion_terms(Tail(categories))

\* retriever.py 133-138
RECURSIVE unique_terms(_, _)
unique_terms(acc, terms) ==
    IF terms = <<>> THEN acc
    ELSE LET term == Head(terms)
         IN unique_terms(IF ~InSeq(term, acc) /\ Len(term) > 2 /\ ~isdigit(term)
                         THEN Append(acc, term) ELSE acc,
                         Tail(terms))

\* " ".join(terms)
RECURSIVE join(_)
join(terms) ==
    IF terms = <<>> THEN ""
    ELSE IF Len(terms) = 1 THEN terms[1]
    ELSE terms[1] \o " " \o join(Tail(terms))

\* AdaptiveRetriever._expand_query_comprehensive (retriever.py 112-140)
expand_query_comprehensive(q, cls) ==
    join(unique_terms(<<>>, <<q>> \o expansion_terms(cls.categories)))

\* [result for result in fused if result.get('normalized_score', 0) >= threshold]
RECURSIVE keep_at_least(_, _)
keep_at_least(fused, threshold) ==
    IF fused = <<>> THEN <<>>
    ELSE (IF RGe(Head(fused).normalized_score, threshold) THEN <<Head(fused)>> ELSE <<>>)
         \o keep_at_least(Tail(fused), threshold)

\* max(fused_results, key=...): the first entry with the greatest key
max_by(fused, key) ==
    fused[CHOOSE k \in 1..Len(fused) :
            /\ \A j \in 1..Len(fused) : RLe(fused[j][key], fused[k][key])
            /\ \A j \in 1..(k - 1) : RLt(fused[j][key], fused[k][key])]

TopN == 3

\* the escalator without its top-3 bypass (retriever.py 166-172 left out)
apply_dynamic_threshold_without_bypass(fused, prm) ==
    LET primary == IF fused # <<>> THEN keep_at_least(fused, prm.score_threshold) ELSE <<>>
        relaxed == IF primary = <<>> /\ fused # <<>>
                   THEN keep_at_least(fused, RMul(prm.score_threshold, Half))
                   ELSE primary
        forced == IF relaxed = <<>> /\ fused # <<>> /\ prm.force_sparse
                  THEN <<max_by(fused, "sparse_score")>>
                  ELSE relaxed
    IN forced

\* the escalator whose bypass takes the top 4 instead of the top 3
apply_dynamic_threshold_top_four(fused, prm) ==
    LET primary == IF fused # <<>> THEN keep_at_least(fused, prm.score_threshold) ELSE <<>>
        relaxed == IF primary = <<>> /\ fused # <<>>
                   THEN keep_at_least(fused, RMul(prm.score_threshold, Half))
                   ELSE primary
        top == IF relaxed = <<>> /\ fused # <<>>
               THEN SubSeq(SortDesc(fused, "normalized_score"), 1,
                           IF Len(fused) < TopN + 1 THEN Len(fused) ELSE TopN + 1)
               ELSE relaxed
    IN top

\* the escalator without its relaxed tier (retriever.py 156-163 left out)
apply_dynamic_threshold_without_relaxed(fused, prm) ==
    LET primary == IF fused # <<>> THEN keep_at_least(fused, prm.score_threshold) ELSE <<>>
        top == IF primary = <<>> /\ fused # <<>>
               THEN SubSeq(SortDesc(fused, "normalized_score"), 1,
                           IF Len(fused) < TopN THEN Len(fused) ELSE TopN)
               ELSE primary
    IN top

\* the escalator with the forced-sparse rescue tried before the top-3 bypass
apply_dynamic_threshold_forced_before_bypass(fused, prm) ==
    LET primary == IF fused # <<>> THEN keep_at_least(fused, prm.score_threshold) ELSE <<>>
        relaxed == IF primary = <<>> /\ fused # <<>>
                   THEN keep_at_least(fused, RMul(prm.score_threshold, Half))
                   ELSE primary
        forced == IF relaxed = <<>> /\ fused # <<>> /\ prm.force_sparse
                  THEN <<max_by(fused, "sparse_score")>>
                  ELSE relaxed
        top == IF forced = <<>> /\ fused # <<>>
               THEN SubSeq(SortDesc(fused, "normalized_score"), 1,
                           IF Len(fused) < TopN THEN Len(fused) ELSE TopN)
               ELSE forced
    IN top

\* AdaptiveRetriever._apply_dynamic_threshold (retriever.py 142-182)
apply_dynamic_threshold(fused, prm) ==
    LET primary == IF fused # <<>> THEN keep_at_least(fused, prm.score_threshold) ELSE <<>>
        relaxed == IF primary = <<>> /\ fused # <<>>
                   THEN keep_at_least(fused, RMul(prm.score_threshold, Half))
                   ELSE primary
        top == IF relaxed = <<>> /\ fused # <<>>
               THEN SubSeq(SortDesc(fused, "normalized_score"), 1,
                           IF Len(fused) < TopN THEN Len(fused) ELSE TopN)
               ELSE relaxed
        forced == IF top = <<>> /\ fused # <<>> /\ prm.force_sparse
                  THEN <<max_by(fused, "sparse_score")>>
                  ELSE top
    IN forced

\* AdaptiveRetriever._generate_detailed_reasoning (retriever.py 184-204): the parts joined
generate_detailed_reasoning(cls, prm, dense_count, sparse_count, final_count) ==
    [primary_type |-> cls.primary_type,
     categories |-> cls.categories,
     complexity_score |-> cls.complexity_score,
     dense_count |-> dense_count,
     sparse_count |-> sparse_count,
     final_count |-> final_count,
     strategy |-> <<prm.dense_weight, prm.sparse_weight>>,
     entities |-> cls.entities]


(***************************************************************************)
(* Inputs.                                                                 *)
(***************************************************************************)
SeqsUpTo(S, n) == UNION {[1..m -> S] : m \in 0..n}

Vocabulary == <<"hello", "good morning", "Pune", "compare", "highest",
                "AB1234567890123", "ab1234567890123", "Sai Dhaam", "CHAITANYA", "\"x\"",
                "floors", "top 5", "410206", "ok">>

Queries == {join([k \in 1..Len(ws) |-> Vocabulary[ws[k]]]) :
               ws \in SeqsUpTo(1..Len(Vocabulary), MaxWords)} \cup {" "}

RetrieveQueries == {"", "hello", "good morning", "floors", "compare Pune"}
\* values of config['retrieval']['final_top_k']
FinalTopKs == {1, 2}
Histories == SeqsUpTo([query : {"hello", "Pune"}], MaxHistory)

\* chunks of the corpus: jsonl_processor gives every chunk of an item the item's doc_id
Chunks == {[chunk |-> 1, doc_id |-> "doc_0"], [chunk |-> 2, doc_id |-> "doc_0"],
           [chunk |-> 3, doc_id |-> "doc_1"]}
\* inner products of normalised vectors (vector_store.py 108-111, 141)
DenseScores == {<<-1, 1>>, <<0, 1>>, <<1, 1>>}
\* BM25 scores, only positive ones are returned (sparse_retriever.py 99)
SparseScores == {<<1, 1>>, <<2, 1>>}
DenseItems == [document : Chunks, score : DenseScores]
SparseItems == [document : Chunks, score : SparseScores]
\* what an index search returns: each chunk at most once, best score first
\* (vector_store.py 141-150, sparse_retriever.py 93-103)
IsRanked(found) ==
    /\ \A i, j \in 1..Len(found) : i < j => found[i].document # found[j].document
    /\ \A i \in 1..(Len(found) - 1) : RGe(found[i].score, found[i + 1].score)
SearchResults(items, n) == {found \in SeqsUpTo(items, n) : IsRanked(found)}


\* fused lists as the escalator may be handed them: one entry per document
EscalatorEntry(k, ns, ss) ==
    [doc_id |-> k, document |-> [chunk |-> k, doc_id |-> k], dense_score |-> ns,
     sparse_score |-> ss, combined_score |-> ns, retrieval_types |-> <<"dense">>,
     raw_dense_score |-> None, raw_sparse_score |-> None, normalized_score |-> ns]
FusedLists ==
    {[k \in 1..Len(v) |-> EscalatorEntry(k, v[k][1], v[k][2])] :
        v \in SeqsUpTo({Zero, Half, One} \X {Zero, One}, MaxFused)}
EscalatorParams ==
    {[base_params EXCEPT !.score_threshold = t, !.force_sparse = f] :
        t \in {<<3, 20>>, <<1, 10>>, <<99, 100>>}, f \in BOOLEAN}

NoClassification == [primary_type |-> "", categories |-> <<>>, entities |-> <<>>,
                     intent |-> "", complexity_score |-> 0]

(***************************************************************************)
(* AdaptiveRetriever.retrieve (retriever.py 51-110) as a state machine:    *)
(* the call, the two index searches, and the fusion up to the return.      *)
(***************************************************************************)
Init ==
    /\ pc = "idle"
    /\ query = ""
    /\ history = <<>>
    /\ classification = NoClassification
    /\ query_type = ""
    /\ expanded_query = ""
    /\ params = base_params
    /\ dense_results = <<>>
    /\ sparse_results = <<>>
    /\ fused_results = <<>>
    /\ filtered_results = <<>>
    /\ result = <<>>
    /\ searches = <<>>
    /\ final_top_k \in FinalTopKs

\* retriever.py 53-72: classification, the conversational short cut, parameters, expansion
Retrieve(q, h) ==
    /\ pc = "idle"
    /\ query' = q
    /\ history' = h
    /\ classification' = classify_query_comprehensive(q)
    /\ query_type' = classify_query(q)
    /\ IF ~should_use_rag(q, h)
       THEN /\ result' = [use_rag |-> FALSE,
                          documents |-> <<>>,
                          query_type |-> query_type',
                          categories |-> classification'.categories,
                          entities |-> classification'.entities,
                          reasoning |-> <<"conversational", query_type'>>]
            /\ pc' = "returned"
            /\ UNCHANGED <<params, expanded_query>>
       ELSE /\ params' = get_retrieval_params(q)
            /\ expanded_query' = expand_query_comprehensive(q, classification')
            /\ pc' = "dense_search"
            /\ UNCHANGED result
    /\ UNCHANGED <<dense_results, sparse_results, fused_results, filtered_results,
                   searches, final_top_k>>

\* a dense search that is handed the query as typed instead of the expanded query
DenseSearch_with_typed_query(found) ==
    /\ pc = "dense_search"
    /\ Len(found) <= params.k
    /\ dense_results' = found
    /\ searches' = Append(searches, [index |-> "dense", text |-> query, k |-> params.k])
    /\ pc' = "sparse_search"
    /\ UNCHANGED <<query, history, classification, query_type, expanded_query, params, sparse_results, fused_results,
                   filtered_results, result, final_top_k>>

\* retriever.py 79: vector_store.search(expanded_query, k=params['k'])
DenseSearch(found) ==
    /\ pc = "dense_search"
    /\ Len(found) <= params.k
    /\ dense_results' = found
    /\ searches' = Append(searches, [index |-> "dense", text |-> expanded_query, k |-> params.k])
    /\ pc' = "sparse_search"
    /\ UNCHANGED <<query, history, classification, query_type, expanded_query, params, sparse_results, fused_results,
                   filtered_results, result, final_top_k>>

\* retriever.py 77, 80: sparse_retriever.search(expanded_query, k=sparse_k)
SparseSearch(found) ==
    /\ pc = "sparse_search"
    /\ LET sparse_k == IF params.force_sparse THEN params.k * 2 ELSE params.k
       IN /\ Len(found) <= sparse_k
          /\ searches' = Append(searches,
                                [index |-> "sparse", text |-> expanded_query, k |-> sparse_k])
    /\ sparse_results' = found
    /\ pc' = "fuse"
    /\ UNCHANGED <<query, history, classification, query_type, expanded_query, params, dense_results, fused_results,
                   filtered_results, result, final_top_k>>

\* a return whose threshold and truncation are done in place on the fused list
Finish_filtering_in_place ==
    /\ pc = "fuse"
    /\ LET fused == fuse_results(dense_results, sparse_results, params)
       IN IF fused.raised
          THEN /\ pc' = "raised"
               /\ UNCHANGED <<fused_results, filtered_results, result>>
          ELSE LET filtered == apply_dynamic_threshold(fused.value, params)
                   final_results == SubSeq(filtered, 1,
                                           IF Len(filtered) < final_top_k
                                           THEN Len(filtered) ELSE final_top_k)
               IN /\ fused_results' = final_results
                  /\ filtered_results' = filtered
                  /\ result' = [use_rag |-> TRUE,
                                documents |-> final_results,
                                dense_results |-> dense_results,
                                sparse_results |-> sparse_results,
                                fused_results |-> final_results,
                                query_type |-> query_type,
                                categories |-> classification.categories,
                                entities |-> classification.entities,
                                retrieval_params |-> params,
                                expanded_query |-> IF expanded_query # query
                                                   THEN <<expanded_query>> ELSE None,
                                reasoning |-> generate_detailed_reasoning(
                                                  classification, params, Len(dense_results),
                                                  Len(sparse_results), Len(final_results))]
                  /\ pc' = "returned"
    /\ UNCHANGED <<query, history, classification, query_type, expanded_query, params, dense_results, sparse_results,
                   searches, final_top_k>>

\* retriever.py 85-110: fusion, threshold, truncation, reasoning and the return
Finish ==
    /\ pc = "fuse"
    /\ LET fused == fuse_results(dense_results, sparse_results, params)
       IN IF fused.raised
          THEN /\ pc' = "raised"
               /\ UNCHANGED <<fused_results, filtered_results, result>>
          ELSE LET filtered == apply_dynamic_threshold(fused.value, params)
                   final_results == SubSeq(filtered, 1,
                                           IF Len(filtered) < final_top_k
                                           THEN Len(filtered) ELSE final_top_k)
               IN /\ fused_results' = fused.value
                  /\ filtered_results' = filtered
                  /\ result' = [use_rag |-> TRUE,
                                documents |-> final_results,
                                dense_results |-> dense_results,
                                sparse_results |-> sparse_results,
                                fused_results |-> fused.value,
                                query_type |-> query_type,
                                categories |-> classification.categories,
                                entities |-> classification.entities,
                                retrieval_params |-> params,
                                expanded_query |-> IF expanded_query # query
                                                   THEN <<expanded_query>> ELSE None,
                                reasoning |-> generate_detailed_reasoning(
                                                  classification, params, Len(dense_results),
                                                  Len(sparse_results), Len(final_results))]
                  /\ pc' = "returned"
    /\ UNCHANGED <<query, history, classification, query_type, expanded_query, params, dense_results, sparse_results,
                   searches, final_top_k>>

Next ==
    \/ \E q \in RetrieveQueries, h \in Histories : Retrieve(q, h)
    \/ \E found \in SearchResults(DenseItems, MaxResults) : DenseSearch(found)
    \/ \E found \in SearchResults(SparseItems, MaxResults - Len(dense_results)) :
          SparseSearch(found)
    \/ Finish

Spec == Init /\ [][Next]_vars

(***************************************************************************)
(* The classifier on its own.                                              *)
(***************************************************************************)
InitClassify ==
    /\ pc = "query"
    /\ query \in Queries
    /\ history = <<>>
    /\ classification = NoClassification
    /\ query_type = ""
    /\ expanded_query = ""
    /\ params = base_params
    /\ dense_results = <<>>
    /\ sparse_results = <<>>
    /\ fused_results = <<>>
    /\ filtered_results = <<>>
    /\ result = <<>>
    /\ searches = <<>>
    /\ final_top_k = 1

Classify ==
    /\ pc = "query"
    /\ classification' = classify_query_comprehensive(query)
    /\ pc' = "classified"
    /\ UNCHANGED <<query, history, query_type, expanded_query, params, dense_results, sparse_results, fused_results,
                   filtered_results, result, searches, final_top_k>>

SpecClassify == InitClassify /\ [][Classify]_vars

(***************************************************************************)
(* The complexity score on its own (router.py 164-174), for every list of  *)
(* categories the detection loop (router.py 155-157) can build.            *)
(***************************************************************************)
\* the categories of query_patterns picked by the set of places, in table order
RECURSIVE categories_at(_, _)
categories_at(places, k) ==
    IF k > Len(query_patterns) THEN <<>>
    ELSE (IF k \in places THEN <<query_patterns[k].name>> ELSE <<>>)
         \o categories_at(places, k + 1)

InitComplexity ==
    /\ pc = "detected"
    /\ query = ""
    /\ history = <<>>
    /\ \E places \in SUBSET (1..Len(query_patterns)) :
          classification = [NoClassification EXCEPT !.categories = categories_at(places, 1)]
    /\ query_type = ""
    /\ expanded_query = ""
    /\ params = base_params
    /\ dense_results = <<>>
    /\ sparse_results = <<>>
    /\ fused_results = <<>>
    /\ filtered_results = <<>>
    /\ result = <<>>
    /\ searches = <<>>
    /\ final_top_k = 1

ScoreComplexity ==
    /\ pc = "detected"
    /\ classification' =
          [classification EXCEPT !.complexity_score = complexity_of(classification.categories)]
    /\ pc' = "scored"
    /\ UNCHANGED <<query, history, query_type, expanded_query, params, dense_results,
                   sparse_results, fused_results, filtered_results, result, searches,
                   final_top_k>>

SpecComplexity == InitComplexity /\ [][ScoreComplexity]_vars

(***************************************************************************)
(* The preparation of a retrieval on its own (retriever.py 54, 69, 72):    *)
(* classification, parameter selection and query expansion.                *)
(***************************************************************************)
\* the queries prepared: the words that select parameters and expansion terms
PrepareQueries ==
    LET words == <<"floors", "410206", "ok", "Pune", "top 5", "hello", "compare", "CHAITANYA">>
    IN {join([k \in 1..Len(ws) |-> words[ws[k]]]) : ws \in SeqsUpTo(1..Len(words), MaxWords)}
       \cup {" "}

InitPrepare ==
    /\ pc = "query"
    /\ query \in PrepareQueries
    /\ history = <<>>
    /\ classification = NoClassification
    /\ query_type = ""
    /\ expanded_query = ""
    /\ params = base_params
    /\ dense_results = <<>>
    /\ sparse_results = <<>>
    /\ fused_results = <<>>
    /\ filtered_results = <<>>
    /\ result = <<>>
    /\ searches = <<>>
    /\ final_top_k = 1

PrepareRetrieval ==
    /\ pc = "query"
    /\ classification' = classify_query_comprehensive(query)
    /\ params' = get_retrieval_params(query)
    /\ expanded_query' = expand_query_comprehensive(query, classification')
    /\ pc' = "prepared"
    /\ UNCHANGED <<query, history, query_type, dense_results, sparse_results, fused_results,
                   filtered_results, result, searches, final_top_k>>

SpecPrepare == InitPrepare /\ [][PrepareRetrieval]_vars

(***************************************************************************)
(* The fusion engine on its own.                                           *)
(***************************************************************************)
InitFuse ==
    /\ pc = "lists"
    /\ query = ""
    /\ history = <<>>
    /\ classification = NoClassification
    /\ query_type = ""
    /\ expanded_query = ""
    /\ params \in {base_params, micro_params}
    /\ dense_results \in SearchResults(DenseItems, MaxResults)
    /\ sparse_results \in SearchResults(SparseItems, MaxResults)
    /\ Len(dense_results) + Len(sparse_results) <= MaxResults
    /\ fused_results = <<>>
    /\ filtered_results = <<>>
    /\ result = <<>>
    /\ searches = <<>>
    /\ final_top_k = 1

Fuse ==
    /\ pc = "lists"
    /\ LET fused == fuse_results(dense_results, sparse_results, params)
       IN IF fused.raised
          THEN pc' = "raised" /\ UNCHANGED fused_results
          ELSE pc' = "fused" /\ fused_results' = fused.value
    /\ UNCHANGED <<query, history, classification, query_type, expanded_query, params, dense_results, sparse_results,
                   filtered_results, result, searches, final_top_k>>

SpecFuse == InitFuse /\ [][Fuse]_vars

\* fusion.py 28-34: the two normalisations at the head of _enhanced_weighted_fusion
raw_scores(results) == [k \in 1..Len(results) |-> results[k].score]

normalized_pair(dense_normalized, sparse_normalized) ==
    IF dense_normalized.raised \/ sparse_normalized.raised THEN Raised
    ELSE Returned([dense_normalized |-> dense_normalized.value,
                   sparse_normalized |-> sparse_normalized.value])

NormalizeScores ==
    /\ pc = "lists"
    /\ result' = normalized_pair(robust_normalize(raw_scores(dense_results), TRUE),
                                 robust_normalize(raw_scores(sparse_results), FALSE))
    /\ pc' = IF result'.raised THEN "raised" ELSE "normalized"
    /\ UNCHANGED <<query, history, classification, query_type, expanded_query, params,
                   dense_results, sparse_results, fused_results, filtered_results, searches,
                   final_top_k>>

SpecNormalize == InitFuse /\ [][NormalizeScores]_vars

(***************************************************************************)
(* The threshold escalator on its own.                                     *)
(***************************************************************************)
InitEscalate ==
    /\ pc = "fused"
    /\ query = ""
    /\ history = <<>>
    /\ classification = NoClassification
    /\ query_type = ""
    /\ expanded_query = ""
    /\ params \in EscalatorParams
    /\ dense_results = <<>>
    /\ sparse_results = <<>>
    /\ fused_results \in FusedLists
    /\ filtered_results = <<>>
    /\ result = <<>>
    /\ searches = <<>>
    /\ final_top_k = 1

Escalate ==
    /\ pc = "fused"
    /\ filtered_results' = apply_dynamic_threshold(fused_results, params)
    /\ pc' = "filtered"
    /\ UNCHANGED <<query, history, classification, query_type, expanded_query, params, dense_results, sparse_results,
                   fused_results, result, searches, final_top_k>>

SpecEscalate == InitEscalate /\ [][Escalate]_vars


(***************************************************************************)
(* Two concurrent calls of retrieve on the same retriever, router, fusion  *)
(* engine and indexes.  The locals of a call (retriever.py 53-96) are kept *)
(* per call: pc[c], classification[c], params[c], ...  The indexes are     *)
(* read-only: a search is a function of the text and k.                    *)
(***************************************************************************)
Calls == {1, 2}

\* the indexed chunks and the word each is found by
IndexedChunks == <<[document |-> [chunk |-> 1, doc_id |-> "doc_0"], word |-> "floors"],
                   [document |-> [chunk |-> 2, doc_id |-> "doc_0"], word |-> "tower"],
                   [document |-> [chunk |-> 3, doc_id |-> "doc_1"], word |-> "Pune"]>>

\* the chunks that contain the word of the text (hit) or do not, in index order
RECURSIVE scored_chunks(_, _, _)
scored_chunks(text, n, hit) ==
    IF n = 0 THEN <<>>
    ELSE scored_chunks(text, n - 1, hit)
         \o (IF contains(text, IndexedChunks[n].word) = hit
             THEN <<[document |-> IndexedChunks[n].document,
                     score |-> IF hit THEN One ELSE Zero]>>
             ELSE <<>>)

first_k(found, k) == SubSeq(found, 1, IF Len(found) < k THEN Len(found) ELSE k)

\* VectorStore.search: the k nearest chunks, whatever their score
dense_index_search(text, k) ==
    first_k(scored_chunks(text, Len(IndexedChunks), TRUE)
            \o scored_chunks(text, Len(IndexedChunks), FALSE), k)

\* SparseRetriever.search: the k best chunks among those with a positive score
sparse_index_search(text, k) == first_k(scored_chunks(text, Len(IndexedChunks), TRUE), k)

\* retriever.py 58-66
short_circuit_result(cls, qtype) ==
    [use_rag |-> FALSE, documents |-> <<>>, query_type |-> qtype,
     categories |-> cls.categories, entities |-> cls.entities,
     reasoning |-> <<"conversational", qtype>>]

\* retriever.py 91-110
retrieval_result(q, cls, qtype, prm, expanded, dense, sparse, fused, final_results) ==
    [use_rag |-> TRUE,
     documents |-> final_results,
     dense_results |-> dense,
     sparse_results |-> sparse,
     fused_results |-> fused,
     query_type |-> qtype,
     categories |-> cls.categories,
     entities |-> cls.entities,
     retrieval_params |-> prm,
     expanded_query |-> IF expanded # q THEN <<expanded>> ELSE None,
     reasoning |-> generate_detailed_reasoning(cls, prm, Len(dense), Len(sparse),
                                               Len(final_results))]

\* retriever.py 85-110
fused_result(q, cls, qtype, prm, expanded, dense, sparse, fused, top_k) ==
    IF fused.raised THEN Raised
    ELSE Returned(retrieval_result(q, cls, qtype, prm, expanded, dense, sparse, fused.value,
                                   first_k(apply_dynamic_threshold(fused.value, prm), top_k)))

\* retriever.py 76-110
searched_result(q, cls, qtype, prm, expanded, top_k) ==
    fused_result(q, cls, qtype, prm, expanded,
                 dense_index_search(expanded, prm.k),
                 sparse_index_search(expanded, IF prm.force_sparse THEN prm.k * 2 ELSE prm.k),
                 fuse_results(dense_index_search(expanded, prm.k),
                              sparse_index_search(expanded,
                                                  IF prm.force_sparse THEN prm.k * 2 ELSE prm.k),
                              prm),
                 top_k)

\* AdaptiveRetriever.retrieve (retriever.py 51-110) as one call running alone
retrieve(q, h, top_k) ==
    IF ~should_use_rag(q, h)
    THEN Returned(short_circuit_result(classify_query_comprehensive(q), classify_query(q)))
    ELSE searched_result(q, classify_query_comprehensive(q), classify_query(q),
                         get_retrieval_params(q),
                         expand_query_comprehensive(q, classify_query_comprehensive(q)), top_k)

ConcurrentQueries == {"hello", "floors", "compare Pune"}

InitConcurrent ==
    /\ pc = [c \in Calls |-> "idle"]
    /\ query \in [Calls -> ConcurrentQueries]
    /\ history \in Histories
    /\ classification = [c \in Calls |-> NoClassification]
    /\ query_type = [c \in Calls |-> ""]
    /\ expanded_query = [c \in Calls |-> ""]
    /\ params = [c \in Calls |-> None]
    /\ dense_results = [c \in Calls |-> <<>>]
    /\ sparse_results = [c \in Calls |-> <<>>]
    /\ fused_results = [c \in Calls |-> <<>>]
    /\ filtered_results = [c \in Calls |-> <<>>]
    /\ result = [c \in Calls |-> None]
    /\ searches = <<>>
    /\ final_top_k \in FinalTopKs

\* a retrieve that keeps its parameters in an attribute of the shared retriever
CallRetrieve_params_on_retriever(c) ==
    /\ pc[c] = "idle"
    /\ classification' = [classification EXCEPT ![c] = classify_query_comprehensive(query[c])]
    /\ query_type' = [query_type EXCEPT ![c] = classify_query(query[c])]
    /\ IF ~should_use_rag(query[c], history)
       THEN /\ result' = [result EXCEPT
                            ![c] = Returned(short_circuit_result(classification'[c],
                                                                 query_type'[c]))]
            /\ pc' = [pc EXCEPT ![c] = "returned"]
            /\ UNCHANGED <<params, expanded_query>>
       ELSE /\ params' = [d \in Calls |-> get_retrieval_params(query[c])]
            /\ expanded_query' =
                  [expanded_query EXCEPT
                      ![c] = expand_query_comprehensive(query[c], classification'[c])]
            /\ pc' = [pc EXCEPT ![c] = "dense_search"]
            /\ UNCHANGED result
    /\ UNCHANGED <<query, history, dense_results, sparse_results, fused_results,
                   filtered_results, searches, final_top_k>>

\* retriever.py 53-72 in call c
CallRetrieve(c) ==
    /\ pc[c] = "idle"
    /\ classification' = [classification EXCEPT ![c] = classify_query_comprehensive(query[c])]
    /\ query_type' = [query_type EXCEPT ![c] = classify_query(query[c])]
    /\ IF ~should_use_rag(query[c], history)
       THEN /\ result' = [result EXCEPT
                            ![c] = Returned(short_circuit_result(classification'[c],
                                                                 query_type'[c]))]
            /\ pc' = [pc EXCEPT ![c] = "returned"]
            /\ UNCHANGED <<params, expanded_query>>
       ELSE /\ params' = [params EXCEPT ![c] = get_retrieval_params(query[c])]
            /\ expanded_query' =
                  [expanded_query EXCEPT
                      ![c] = expand_query_comprehensive(query[c], classification'[c])]
            /\ pc' = [pc EXCEPT ![c] = "dense_search"]
            /\ UNCHANGED result
    /\ UNCHANGED <<query, history, dense_results, sparse_results, fused_results,
                   filtered_results, searches, final_top_k>>

\* retriever.py 79 in call c
CallDenseSearch(c) ==
    /\ pc[c] = "dense_search"
    /\ dense_results' =
          [dense_results EXCEPT ![c] = dense_index_search(expanded_query[c], params[c].k)]
    /\ pc' = [pc EXCEPT ![c] = "sparse_search"]
    /\ UNCHANGED <<query, history, classification, query_type, expanded_query, params,
                   sparse_results, fused_results, filtered_results, result, searches,
                   final_top_k>>

\* retriever.py 77, 80 in call c
CallSparseSearch(c) ==
    /\ pc[c] = "sparse_search"
    /\ sparse_results' =
          [sparse_results EXCEPT
              ![c] = sparse_index_search(expanded_query[c],
                                         IF params[c].force_sparse THEN params[c].k * 2
                                         ELSE params[c].k)]
    /\ pc' = [pc EXCEPT ![c] = "fuse"]
    /\ UNCHANGED <<query, history, classification, query_type, expanded_query, params,
                   dense_results, fused_results, filtered_results, result, searches,
                   final_top_k>>

\* retriever.py 85-110 in call c
CallFinish(c) ==
    /\ pc[c] = "fuse"
    /\ result' = [result EXCEPT
                     ![c] = fused_result(query[c], classification[c], query_type[c], params[c],
                                         expanded_query[c], dense_results[c], sparse_results[c],
                                         fuse_results(dense_results[c], sparse_results[c],
                                                      params[c]),
                                         final_top_k)]
    /\ pc' = [pc EXCEPT ![c] = IF result'[c].raised THEN "raised" ELSE "returned"]
    /\ UNCHANGED <<query, history, classification, query_type, expanded_query, params,
                   dense_results, sparse_results, fused_results, filtered_results, searches,
                   final_top_k>>

NextConcurrent ==
    \E c \in Calls :
        \/ CallRetrieve(c)
        \/ CallDenseSearch(c)
        \/ CallSparseSearch(c)
        \/ CallFinish(c)

SpecConcurrent == InitConcurrent /\ [][NextConcurrent]_vars


(***************************************************************************)
(* The callers: RealEstateAI.process_query and the chat loop of            *)
(* RealEstateAI.chat_mode (main.py 158-187, 243-291).  history is the      *)
(* loop's conversation_history, query the line read last (stripped) and    *)
(* result the list of what process_query returned, one entry per processed *)
(* turn.  The indexes are those of IndexedChunks.                          *)
(***************************************************************************)
MaxChatTurns == 12   \* processed turns of a chat session on the command line
MaxWebTurns == 22    \* processed turns of a web session
MaxTurns == 2        \* processed turns of a session whose turns may fail either way
MaxFailures == 1     \* failed turns of a chat session on the command line

CliWindow == 10
WebWindow == 20

\* conversation_history[:window], the oldest entries
last_entries_from_the_front(h, window) ==
    IF Len(h) > window THEN SubSeq(h, 1, window) ELSE h

\* conversation_history[-window:]
last_entries(h, window) ==
    IF Len(h) > window THEN SubSeq(h, Len(h) - window + 1, Len(h)) ELSE h

\* RealEstateAI.process_query (main.py 158-187): retrieval is what retrieve did,
\* generated tells whether generate_response returned
process_query(q, retrieval, generated) ==
    IF retrieval.raised \/ ~generated
    THEN [query |-> q, response |-> "I encountered an error", retrieval_result |-> None,
          success |-> FALSE,
          error |-> IF retrieval.raised THEN "raised by retrieve"
                    ELSE "raised by generate_response"]
    ELSE [query |-> q, response |-> "answer", retrieval_result |-> retrieval.value,
          success |-> TRUE]

QuitCommands == {"quit", "exit", "bye"}

InitChat ==
    /\ pc = "prompt"
    /\ query = ""
    /\ history = <<>>
    /\ classification = NoClassification
    /\ query_type = ""
    /\ expanded_query = ""
    /\ params = base_params
    /\ dense_results = <<>>
    /\ sparse_results = <<>>
    /\ fused_results = <<>>
    /\ filtered_results = <<>>
    /\ result = <<>>
    /\ searches = <<>>
    /\ final_top_k = 2

\* main.py 247-249: quit, exit or bye ends the loop
ChatQuit(line) ==
    /\ pc = "prompt"
    /\ lower(strip(line)) \in QuitCommands
    /\ query' = strip(line)
    /\ pc' = "ended"
    /\ UNCHANGED <<history, classification, query_type, expanded_query, params, dense_results,
                   sparse_results, fused_results, filtered_results, result, searches,
                   final_top_k>>

\* main.py 251-266: test, history and the empty line go back to the prompt
ChatContinue(line) ==
    /\ pc = "prompt"
    /\ lower(strip(line)) \in {"test", "history", ""}
    /\ query' = strip(line)
    /\ UNCHANGED <<pc, history, classification, query_type, expanded_query, params,
                   dense_results, sparse_results, fused_results, filtered_results, result,
                   searches, final_top_k>>

\* a chat loop that leaves a failed turn out of the history
ChatTurn_dropping_failed_turns(line, retrieval_raises, generated) ==
    /\ pc = "prompt"
    /\ lower(strip(line)) \notin QuitCommands \cup {"test", "history", ""}
    /\ query' = strip(line)
    /\ result' = Append(result,
                        process_query(query',
                                      IF retrieval_raises /\ should_use_rag(query', history)
                                      THEN Raised
                                      ELSE retrieve(query', history, final_top_k),
                                      generated))
    /\ history' = IF result'[Len(result')].success
                  THEN last_entries(Append(history,
                                           [query |-> query',
                                            response |-> result'[Len(result')].response,
                                            timestamp |-> Len(history)]),
                                    CliWindow)
                  ELSE history
    /\ UNCHANGED <<pc, classification, query_type, expanded_query, params, dense_results,
                   sparse_results, fused_results, filtered_results, searches, final_top_k>>

\* main.py 268-283: a processed turn; retrieval_raises and generated are what the
\* retriever and the generator do in this turn
ChatTurn(line, retrieval_raises, generated) ==
    /\ pc = "prompt"
    /\ lower(strip(line)) \notin QuitCommands \cup {"test", "history", ""}
    /\ query' = strip(line)
    /\ result' = Append(result,
                        process_query(query',
                                      IF retrieval_raises /\ should_use_rag(query', history)
                                      THEN Raised
                                      ELSE retrieve(query', history, final_top_k),
                                      generated))
    /\ history' = last_entries(Append(history,
                                      [query |-> query',
                                       response |-> result'[Len(result')].response,
                                       timestamp |-> Len(history)]),
                               CliWindow)
    /\ UNCHANGED <<pc, classification, query_type, expanded_query, params, dense_results,
                   sparse_results, fused_results, filtered_results, searches, final_top_k>>

\* the turns of the list that ended in the error result
Failures(results) == Cardinality({k \in 1..Len(results) : ~results[k].success})

ChatLines == {"", " ", "test", "history", "quit", "Bye", "Pune"}

NextChat ==
    \/ \E line \in ChatLines : ChatQuit(line)
    \/ \E line \in ChatLines : ChatContinue(line)
    \/ /\ Len(result) < MaxChatTurns
       /\ \E line \in ChatLines, generated \in BOOLEAN :
             /\ generated \/ Failures(result) < MaxFailures
             /\ ChatTurn(line, FALSE, generated)

SpecChat == InitChat /\ [][NextChat]_vars

(***************************************************************************)
(* The web caller: api_chat and clear_history (web_app/app.py 113-186,     *)
(* 356-360) on an initialised system.  history is the session's            *)
(* conversation_history; the clock behind the timestamps is the number of  *)
(* turns processed so far.                                                 *)
(***************************************************************************)
InitWeb ==
    /\ pc = "serving"
    /\ query = ""
    /\ history = <<>>
    /\ classification = NoClassification
    /\ query_type = ""
    /\ expanded_query = ""
    /\ params = base_params
    /\ dense_results = <<>>
    /\ sparse_results = <<>>
    /\ fused_results = <<>>
    /\ filtered_results = <<>>
    /\ result = <<>>
    /\ searches = <<>>
    /\ final_top_k = 2

\* app.py 126-134: a request with an empty query is answered without a turn
ApiChatEmpty(line) ==
    /\ pc = "serving"
    /\ strip(line) = ""
    /\ query' = strip(line)
    /\ pc' = "asked"
    /\ UNCHANGED <<history, classification, query_type, expanded_query, params, dense_results,
                   sparse_results, fused_results, filtered_results, result, searches,
                   final_top_k>>

\* app.py 126-164: a processed turn
ApiChat(line, retrieval_raises, generated) ==
    /\ pc \in {"serving", "asked"}
    /\ strip(line) # ""
    /\ query' = strip(line)
    /\ result' = Append(result,
                        process_query(query',
                                      IF retrieval_raises /\ should_use_rag(query', history)
                                      THEN Raised
                                      ELSE retrieve(query', history, final_top_k),
                                      generated))
    /\ history' = last_entries(Append(history,
                                      [query |-> query',
                                       response |-> result'[Len(result')].response,
                                       timestamp |-> Len(result'),
                                       success |-> result'[Len(result')].success]),
                               WebWindow)
    /\ pc' = "serving"
    /\ UNCHANGED <<classification, query_type, expanded_query, params, dense_results,
                   sparse_results, fused_results, filtered_results, searches, final_top_k>>

\* app.py 356-360: POST /api/clear_history
clear_history ==
    /\ pc \in {"serving", "asked"}
    /\ history # <<>>
    /\ history' = <<>>
    /\ pc' = "serving"
    /\ UNCHANGED <<query, classification, query_type, expanded_query, params, dense_results,
                   sparse_results, fused_results, filtered_results, result, searches,
                   final_top_k>>

WebLines == {"", " ", "Pune"}

NextWeb ==
    \/ \E line \in WebLines : ApiChatEmpty(line)
    \/ /\ Len(result) < MaxWebTurns
       /\ \E line \in WebLines : ApiChat(line, FALSE, TRUE)
    \/ clear_history

SpecWeb == InitWeb /\ [][NextWeb]_vars

\* a session of either caller
InitCallers == InitChat \/ InitWeb

NextCallers == NextChat \/ NextWeb

SpecCallers == InitCallers /\ [][NextCallers]_vars

(***************************************************************************)
(* Short sessions of either caller in which the retriever or the generator *)
(* may raise in any turn.                                                  *)
(***************************************************************************)
SessionLines == {"Pune", "thanks", "see you"}

InitSession == InitChat \/ InitWeb

NextSession ==
    /\ Len(result) < MaxTurns
    /\ \E line \in SessionLines, retrieval_raises \in BOOLEAN, generated \in BOOLEAN :
          /\ ~retrieval_raises \/ generated
          /\ \/ ChatTurn(line, retrieval_raises, generated)
             \/ ApiChat(line, retrieval_raises, generated)

SpecSession == InitSession /\ [][NextSession]_vars

(***************************************************************************)
(* The web application's start-up (web_app/app.py 15-17, 43-94, 113-139,   *)
(* 306-343, 375-409; main.py 38-54, 86-156).  The server handles each      *)
(* request in a thread of its own; a step is a statement that reads or     *)
(* writes a module global, or the body of a method of RealEstateAI.        *)
(* result holds the module globals, searches the RealEstateAI instances    *)
(* constructed so far, and per request pc is its position, query its route *)
(* and history the instance bound to self in the method it is running.     *)
(***************************************************************************)
MaxRequests == 2

Requests == 1..MaxRequests

Routes == {"/", "/api/chat", "/api/search", "/setup"}

ai_system == result.ai_system

system_initialized == result.system_initialized

initialization_error == result.initialization_error

retrieval_vars == <<classification, query_type, expanded_query, params, dense_results,
                    sparse_results, fused_results, filtered_results, final_top_k>>

\* RealEstateAI.__init__ (main.py 38-54): every component starts as None
NewRealEstateAI == [retriever |-> None, generator |-> None]

\* RealEstateAI._initialize_components (main.py 109-118)
initialize_components(instance) ==
    [instance EXCEPT !.retriever = <<"AdaptiveRetriever">>,
                     !.generator = <<"ResponseGenerator">>]

Instance(ref) == searches[ref[1]]

InitStartup ==
    /\ pc = [r \in Requests |-> "idle"]
    /\ query = [r \in Requests |-> ""]
    /\ history = [r \in Requests |-> None]
    /\ searches = <<>>
    /\ result = [ai_system |-> None, system_initialized |-> FALSE,
                 initialization_error |-> None]
    /\ classification = NoClassification
    /\ query_type = ""
    /\ expanded_query = ""
    /\ params = None
    /\ dense_results = <<>>
    /\ sparse_results = <<>>
    /\ fused_results = <<>>
    /\ filtered_results = <<>>
    /\ final_top_k = 2

\* a request for a route reaches the server
Arrive(r, route) ==
    /\ pc[r] = "idle"
    /\ query' = [query EXCEPT ![r] = route]
    /\ pc' = [pc EXCEPT ![r] = "before_request"]
    /\ UNCHANGED <<history, searches, result, retrieval_vars>>

\* app.py 89-94
before_request(r) ==
    /\ pc[r] = "before_request"
    /\ pc' = [pc EXCEPT ![r] = IF ~system_initialized /\ ai_system = None
                               THEN "initialize_ai_system" ELSE "route"]
    /\ UNCHANGED <<query, history, searches, result, retrieval_vars>>

\* app.py 47-53, 81-87: ai_system = RealEstateAI(config_path), or the handler
\* when the constructor raises
initialize_construct(r, constructed) ==
    /\ pc[r] = "initialize_ai_system"
    /\ IF constructed
       THEN /\ searches' = Append(searches, NewRealEstateAI)
            /\ result' = [result EXCEPT !.ai_system = <<Len(searches')>>]
            /\ pc' = [pc EXCEPT ![r] = "initialize_call_load"]
       ELSE /\ result' = [result EXCEPT !.initialization_error = <<"Error initializing AI system">>,
                                        !.system_initialized = FALSE]
            /\ pc' = [pc EXCEPT ![r] = "route"]
            /\ UNCHANGED searches
    /\ UNCHANGED <<query, history, retrieval_vars>>

\* app.py 56: the call ai_system.load_existing_model() binds self
initialize_call_load(r) ==
    /\ pc[r] = "initialize_call_load"
    /\ history' = [history EXCEPT ![r] = ai_system]
    /\ pc' = [pc EXCEPT ![r] = "load_existing_model"]
    /\ UNCHANGED <<query, searches, result, retrieval_vars>>

\* RealEstateAI.load_existing_model (main.py 120-156)
load_existing_model(r, loaded) ==
    /\ pc[r] = "load_existing_model"
    /\ IF loaded
       THEN /\ searches' = [searches EXCEPT ![history[r][1]] = initialize_components(@)]
            /\ pc' = [pc EXCEPT ![r] = "initialize_succeeded"]
       ELSE /\ pc' = [pc EXCEPT ![r] = "initialize_call_setup"]
            /\ UNCHANGED searches
    /\ UNCHANGED <<query, history, result, retrieval_vars>>

\* app.py 67: the call ai_system.setup_data() binds self
initialize_call_setup(r) ==
    /\ pc[r] = "initialize_call_setup"
    /\ history' = [history EXCEPT ![r] = ai_system]
    /\ pc' = [pc EXCEPT ![r] = "initialize_setup_data"]
    /\ UNCHANGED <<query, searches, result, retrieval_vars>>

SetupOutcomes == {"built", "no data", "raised"}

\* RealEstateAI.setup_data (main.py 86-107) and what its caller does with a
\* False or an exception (app.py 76-87, 330-343)
setup_data(r, outcome) ==
    /\ pc[r] \in {"initialize_setup_data", "setup_setup_data"}
    /\ searches' = IF outcome = "built"
                   THEN [searches EXCEPT ![history[r][1]] = initialize_components(@)]
                   ELSE searches
    /\ result' = IF pc[r] = "setup_setup_data" \/ outcome = "built"
                 THEN result
                 ELSE IF outcome = "no data"
                 THEN [result EXCEPT !.initialization_error = <<"Failed to set up data">>]
                 ELSE [result EXCEPT !.initialization_error = <<"Error initializing AI system">>,
                                     !.system_initialized = FALSE]
    /\ pc' = [pc EXCEPT ![r] = IF outcome = "built"
                               THEN IF pc[r] = "setup_setup_data"
                                    THEN "setup_succeeded" ELSE "initialize_succeeded"
                               ELSE IF pc[r] = "setup_setup_data" THEN "done" ELSE "route"]
    /\ UNCHANGED <<query, history, retrieval_vars>>

\* app.py 58-59, 69-70, 321-323: system_initialized = True
mark_initialized(r) ==
    /\ pc[r] \in {"initialize_succeeded", "setup_succeeded"}
    /\ result' = [result EXCEPT !.system_initialized = TRUE, !.initialization_error = None]
    /\ pc' = [pc EXCEPT ![r] = IF pc[r] = "setup_succeeded" THEN "done" ELSE "route"]
    /\ UNCHANGED <<query, history, searches, retrieval_vars>>

\* app.py 96-101: a page that only reads the globals
index(r) ==
    /\ pc[r] = "route"
    /\ query[r] = "/"
    /\ pc' = [pc EXCEPT ![r] = "done"]
    /\ UNCHANGED <<query, history, searches, result, retrieval_vars>>

\* app.py 118-124, 380-385: the guard of /api/chat and /api/search
api_guard(r) ==
    /\ pc[r] = "route"
    /\ query[r] \in {"/api/chat", "/api/search"}
    /\ pc' = [pc EXCEPT ![r] = IF ~system_initialized \/ ai_system = None
                               THEN "done"
                               ELSE IF query[r] = "/api/search"
                               THEN "test_retrieval" ELSE "call_process_query"]
    /\ UNCHANGED <<query, history, searches, result, retrieval_vars>>

\* app.py 396-402 with main.py 189-226: test_retrieval returns None when the
\* retriever is missing, and /api/search answers without process_query
test_retrieval(r) ==
    /\ pc[r] = "test_retrieval"
    /\ history' = [history EXCEPT ![r] = ai_system]
    /\ pc' = [pc EXCEPT ![r] = IF Instance(ai_system).retriever = None
                               THEN "done" ELSE "call_process_query"]
    /\ UNCHANGED <<query, searches, result, retrieval_vars>>

\* app.py 139, 405: the call ai_system.process_query(...) binds self
call_process_query(r) ==
    /\ pc[r] = "call_process_query"
    /\ history' = [history EXCEPT ![r] = ai_system]
    /\ pc' = [pc EXCEPT ![r] = "process_query"]
    /\ UNCHANGED <<query, searches, result, retrieval_vars>>

\* main.py 158-187: process_query returns, with or without an error
return_process_query(r) ==
    /\ pc[r] = "process_query"
    /\ pc' = [pc EXCEPT ![r] = "done"]
    /\ UNCHANGED <<query, history, searches, result, retrieval_vars>>

\* app.py 309-313: POST /setup looks at ai_system
setup(r) ==
    /\ pc[r] = "route"
    /\ query[r] = "/setup"
    /\ pc' = [pc EXCEPT ![r] = IF ai_system = None THEN "setup_construct" ELSE "setup_call"]
    /\ UNCHANGED <<query, history, searches, result, retrieval_vars>>

\* app.py 314-316, 338-342: ai_system = RealEstateAI(config_path)
setup_construct(r, constructed) ==
    /\ pc[r] = "setup_construct"
    /\ IF constructed
       THEN /\ searches' = Append(searches, NewRealEstateAI)
            /\ result' = [result EXCEPT !.ai_system = <<Len(searches')>>]
            /\ pc' = [pc EXCEPT ![r] = "setup_call"]
       ELSE /\ pc' = [pc EXCEPT ![r] = "done"]
            /\ UNCHANGED <<searches, result>>
    /\ UNCHANGED <<query, history, retrieval_vars>>

\* app.py 318: the call ai_system.setup_data() binds self
setup_call(r) ==
    /\ pc[r] = "setup_call"
    /\ history' = [history EXCEPT ![r] = ai_system]
    /\ pc' = [pc EXCEPT ![r] = "setup_setup_data"]
    /\ UNCHANGED <<query, searches, result, retrieval_vars>>

NextStartup ==
    \/ \E r \in Requests, route \in Routes : Arrive(r, route)
    \/ \E r \in Requests : before_request(r)
    \/ \E r \in Requests, constructed \in BOOLEAN : initialize_construct(r, constructed)
    \/ \E r \in Requests : initialize_call_load(r)
    \/ \E r \in Requests, loaded \in BOOLEAN : load_existing_model(r, loaded)
    \/ \E r \in Requests : initialize_call_setup(r)
    \/ \E r \in Requests, outcome \in SetupOutcomes : setup_data(r, outcome)
    \/ \E r \in Requests : mark_initialized(r)
    \/ \E r \in Requests : index(r)
    \/ \E r \in Requests : api_guard(r)
    \/ \E r \in Requests : test_retrieval(r)
    \/ \E r \in Requests : call_process_query(r)
    \/ \E r \in Requests : return_process_query(r)
    \/ \E r \in Requests : setup(r)
    \/ \E r \in Requests, constructed \in BOOLEAN : setup_construct(r, constructed)
    \/ \E r \in Requests : setup_call(r)

SpecStartup == InitStartup /\ [][NextStartup]_vars


(***************************************************************************)
(* Properties.                                                             *)
(***************************************************************************)
HasKey(f, key) == \E x \in DOMAIN f : x = key

Entries(list) == {list[k] : k \in 1..Len(list)}

\* C1: the escalator returns a non-empty list if and only if the fused input is
\* non-empty; an empty fused input yields an empty list.
C1_EscalatorNonEmptyIffInput ==
    pc = "filtered" => ((filtered_results # <<>>) <=> (fused_results # <<>>))

\* C1 witness: a non-empty fused list none of whose entries passes the primary or the
\* relaxed threshold, and the escalator still returned entries.
C1_Witness ==
    /\ pc = "filtered"
    /\ fused_results # <<>>
    /\ \A e \in Entries(fused_results) :
          RLt(e.normalized_score, RMul(params.score_threshold, Half))
    /\ filtered_results # <<>>

Threshold99 == <<99, 100>>
NoEntryReaches(t) == \A e \in Entries(fused_results) : RLt(e.normalized_score, t)

\* C2 (as stated): with score_threshold 0.99 and no entry at or above 0.99, escalating a
\* non-empty fused list returns a non-empty list of at most 3 entries.
C2_AtMostThreeBelowThreshold ==
    (/\ pc = "filtered"
     /\ fused_results # <<>>
     /\ params.score_threshold = Threshold99
     /\ NoEntryReaches(Threshold99))
    => (filtered_results # <<>> /\ Len(filtered_results) <= 3)

\* C2 (amended): with score_threshold 0.99 and no entry at or above 0.99, escalating a
\* non-empty fused list returns a non-empty list: exactly the entries with
\* normalized_score >= 0.495 when there are any (possibly more than 3), and otherwise
\* the top-3 bypass result of at most 3 entries.
C2_RelaxedThenTopThree ==
    (/\ pc = "filtered"
     /\ fused_results # <<>>
     /\ params.score_threshold = Threshold99
     /\ NoEntryReaches(Threshold99))
    => /\ filtered_results # <<>>
       /\ IF NoEntryReaches(RMul(Threshold99, Half))
          THEN /\ Len(filtered_results) <= 3
               /\ Len(filtered_results) = (IF Len(fused_results) < 3 THEN Len(fused_results) ELSE 3)
               /\ Entries(filtered_results) \subseteq Entries(fused_results)
          ELSE Entries(filtered_results) =
                  {e \in Entries(fused_results) :
                      RGe(e.normalized_score, RMul(Threshold99, Half))}

\* C2 witness: four entries below 0.495 under threshold 0.99, three returned.
C2_Witness ==
    /\ pc = "filtered"
    /\ Len(fused_results) >= 4
    /\ params.score_threshold = Threshold99
    /\ NoEntryReaches(RMul(Threshold99, Half))
    /\ Len(filtered_results) = 3

\* C3 (as stated): every entry returned by fuse has
\* combined_score = dense_weight * dense_score + sparse_weight * sparse_score.
C3_CombinedIsWeightedSum ==
    pc = "fused" =>
        \A e \in Entries(fused_results) :
            e.combined_score = RAdd(RMul(params.dense_weight, e.dense_score),
                                    RMul(params.sparse_weight, e.sparse_score))

RetrievalRan == pc \in {"returned", "raised"} /\ searches # <<>>

\* C4 (as stated): when retrieval runs, documents is non-empty iff at least one path
\* returned a result; with exactly one path empty every document lists only the other
\* path and has score 0.0 for the empty path.
C4_DocumentsIffAnyPath ==
    RetrievalRan =>
        /\ pc = "returned"
        /\ result.use_rag
        /\ (result.documents # <<>>) <=> (dense_results # <<>> \/ sparse_results # <<>>)
        /\ (dense_results = <<>> /\ sparse_results = <<>>) => fused_results = <<>>
        /\ dense_results = <<>> =>
              \A e \in Entries(result.documents) :
                  Entries(e.retrieval_types) = {"sparse"} /\ e.dense_score = Zero
        /\ sparse_results = <<>> =>
              \A e \in Entries(result.documents) :
                  Entries(e.retrieval_types) = {"dense"} /\ e.sparse_score = Zero

ResultKeys == {"use_rag", "documents", "query_type", "categories", "entities",
               "retrieval_params", "reasoning"}

\* C5 (as stated): retrieve returns without raising and the returned object contains
\* use_rag, documents, query_type, categories, entities, retrieval_params and reasoning.
C5_AlwaysWellFormedResult ==
    pc \in {"returned", "raised"} =>
        pc = "returned" /\ \A key \in ResultKeys : HasKey(result, key)

\* the literals of the greeting, thanks and goodbye patterns (router.py 119-122)
SocialPhrases == <<"hello", "hi", "hey", "good morning", "good afternoon", "thank", "thanks",
                   "bye", "goodbye", "see you">>

RECURSIVE SocialFrom(_, _)
SocialFrom(text, i) ==
    \/ i > Len(text)
    \/ \E k \in 1..Len(SocialPhrases) :
          /\ LitAt(SocialPhrases[k], text, i)
          /\ LET j == i + Len(SocialPhrases[k])
             IN j > Len(text) \/ (Ch(text, j) = " " /\ SocialFrom(text, j + 1))

\* the query consists of greetings, thanks and farewells only
IsSocialUtterance(q) == LET text == strip(lower(q)) IN text # "" /\ SocialFrom(text, 1)

InformationalCategories(cats) == {c \in Entries(cats) : c # "conversational"}

\* C6 (as stated): primary_type = conversational only if no informational category was
\* detected or the query is a purely social utterance.
C6_ConversationalOnlyIfSocial ==
    (pc = "classified" /\ classification.primary_type = "conversational")
    => (InformationalCategories(classification.categories) = {} \/ IsSocialUtterance(query))

\* rule (1) of the precedence as the code applies it (router.py 177)
MarkerRuleApplies(q) ==
    \E k \in 1..Len(ConversationalTerms) : contains(strip(lower(q)), ConversationalTerms[k])

\* rule (2) of the precedence
ComplexRuleApplies(cls) == cls.complexity_score >= 2 \/ InSeq("analytical", cls.categories)

re_rera_id_ignorecase == IgnoreCase(re_rera_id)
re_known_project_name == Bounded(Lits(ProjectNames))

\* a 2-letter + 13-digit identifier, a quoted phrase or a known project name occurs
HasExactEvidence(q) ==
    \/ re_search(re_rera_id_ignorecase, lower(q))
    \/ contains(q, "\"")
    \/ re_search(re_known_project_name, q)

\* C7 (as stated): where rule (1) does not apply, primary_type is complex, else exact,
\* else simple, else conversational, in this fixed order.
C7_FixedPrecedence ==
    (pc = "classified" /\ ~MarkerRuleApplies(query))
    => classification.primary_type =
          (IF ComplexRuleApplies(classification) THEN "complex"
           ELSE IF HasExactEvidence(query) THEN "exact"
           ELSE IF classification.categories # <<>> THEN "simple"
           ELSE "conversational")

\* C8 (as stated): a query containing an identifier of 2 letters and 13 digits, with
\* rules (1) and (2) not applying, is exact and has that identifier among rera_ids.
C8_IdentifierIsExactAndExtracted ==
    LET ids == re_findall_ignorecase(re_rera_id_ignorecase, query)
    IN (/\ pc = "classified"
        /\ ids # <<>>
        /\ ~MarkerRuleApplies(query)
        /\ ~ComplexRuleApplies(classification))
       => /\ classification.primary_type = "exact"
          /\ HasKey(classification.entities, "rera_ids")
          /\ \A k \in 1..Len(ids) : InSeq(ids[k], classification.entities["rera_ids"])

\* C9 (as stated): a query that is only a greeting, thanks or farewell, with an empty
\* history, is conversational with an empty category set, and retrieve returns
\* use_rag = false.
C9_SocialQueryBypassesRetrieval ==
    (pc # "idle" /\ IsSocialUtterance(query) /\ history = <<>>)
    => /\ classification.primary_type = "conversational"
       /\ classification.categories = <<>>
       /\ pc = "returned"
       /\ ~result.use_rag

\* C10 (as stated): a query matching a location pattern and an analytical pattern has
\* complexity_score >= 2 and primary_type = complex.
C10_LocationAndAnalyticalIsComplex ==
    (/\ pc = "classified"
     /\ InSeq("location", classification.categories)
     /\ InSeq("analytical", classification.categories))
    => (classification.complexity_score >= 2 /\ classification.primary_type = "complex")


\* a conversational query with no informational turn right before it
PureConversationalTurn ==
    /\ classification.primary_type = "conversational"
    /\ \/ history = <<>>
       \/ classify_query(history[Len(history)].query) \notin RagTypes

ParamsAre(prm, k, score_threshold, dense_weight, sparse_weight, force_sparse) ==
    /\ prm.k = k
    /\ prm.score_threshold = score_threshold
    /\ prm.dense_weight = dense_weight
    /\ prm.sparse_weight = sparse_weight
    /\ prm.force_sparse = force_sparse

IsBaseline(prm) == ParamsAre(prm, 15, <<3, 20>>, <<3, 5>>, <<2, 5>>, FALSE)
IsOverride(prm) == ParamsAre(prm, 20, <<1, 10>>, <<4, 5>>, <<1, 5>>, FALSE)

MicroDetailDetected ==
    \E c \in {"micro_details", "structural_micro", "location_micro"} :
        InSeq(c, classification.categories)

\* C12: get_retrieval_params returns the baseline record, or the override if and only if
\* a micro-detail category is detected; k is positive and score_threshold is in [0,1).
C12_BaselineOrMicroOverride ==
    pc = "prepared" =>
        /\ IF MicroDetailDetected THEN IsOverride(params) ELSE IsBaseline(params)
        /\ params.k > 0
        /\ RLe(Zero, params.score_threshold) /\ RLt(params.score_threshold, One)

\* C12 witness: a query with a micro-detail category got the override.
C12_Witness == pc = "prepared" /\ MicroDetailDetected /\ params.k = 20

\* the terms of the detected categories in order, each once, without the query text
\* itself, without terms of fewer than 3 characters and without numeric terms
RECURSIVE KeptTerms(_, _)
KeptTerms(acc, terms) ==
    IF terms = <<>> THEN acc
    ELSE KeptTerms(IF \/ InSeq(Head(terms), acc)
                      \/ Head(terms) = query
                      \/ Len(Head(terms)) < 3
                      \/ isdigit(Head(terms))
                   THEN acc ELSE Append(acc, Head(terms)),
                   Tail(terms))

\* C13 (as stated): the expanded query is the original query text followed by the
\* expansion terms of the detected categories, each once, short and numeric terms
\* dropped; the original query text is always preserved at the front.
C13_QueryFirstThenTerms ==
    pc = "prepared" =>
        expanded_query =
            join(<<query>> \o KeptTerms(<<>>, expansion_terms(classification.categories)))

\* values in [0,1], one per raw score
InUnitInterval(values, raw) ==
    /\ Len(values) = Len(raw)
    /\ \A k \in 1..Len(values) : RLe(Zero, values[k]) /\ RLe(values[k], One)

AllEqual(raw) == \A i, j \in 1..Len(raw) : raw[i] = raw[j]

\* the best raw value is mapped to 1.0 and the worst to 0.0, all to 1.0 if all are equal;
\* the best is the lowest when lower_is_better and the highest otherwise
BestToOneWorstToZero(values, raw, lower_is_better) ==
    \A k \in 1..Len(raw) :
        LET lowest == \A j \in 1..Len(raw) : RLe(raw[k], raw[j])
            highest == \A j \in 1..Len(raw) : RGe(raw[k], raw[j])
        IN IF AllEqual(raw) THEN values[k] = One
           ELSE /\ (IF lower_is_better THEN lowest ELSE highest) => values[k] = One
                /\ (IF lower_is_better THEN highest ELSE lowest) => values[k] = Zero

\* C14 (as stated): normalisation of any list of raw scores returns values in [0,1] of
\* the same length, the best raw value (lowest distance on the inverted dense path,
\* highest score on the sparse path) mapped to 1.0 and the worst to 0.0, all 1.0 when all
\* raw scores are equal, and an empty list for an empty list.
C14_NormalizedIntoUnitInterval ==
    pc \in {"normalized", "raised"} =>
        /\ pc = "normalized"
        /\ InUnitInterval(result.value.dense_normalized, raw_scores(dense_results))
        /\ InUnitInterval(result.value.sparse_normalized, raw_scores(sparse_results))
        /\ BestToOneWorstToZero(result.value.dense_normalized, raw_scores(dense_results), TRUE)
        /\ BestToOneWorstToZero(result.value.sparse_normalized, raw_scores(sparse_results),
                                FALSE)

\* the least and the greatest combined_score of the fused list
LeastCombined == CHOOSE c \in {e.combined_score : e \in Entries(fused_results)} :
                    \A e \in Entries(fused_results) : RLe(c, e.combined_score)
GreatestCombined == CHOOSE c \in {e.combined_score : e \in Entries(fused_results)} :
                       \A e \in Entries(fused_results) : RGe(c, e.combined_score)

\* min-max rescaling over the fused list; 1.0 where all combined scores are equal
Rescaled(c) ==
    IF RLt(LeastCombined, GreatestCombined)
    THEN RDiv(RSub(c, LeastCombined), RSub(GreatestCombined, LeastCombined))
    ELSE One

\* C15: the list returned by fuse is in non-increasing combined_score order, every
\* normalized_score is the min-max rescaling of combined_score over the list and lies in
\* [0,1], and the first entry of a non-empty list has normalized_score 1.0.
C15_SortedAndRescaled ==
    pc = "fused" =>
        /\ \A k \in 1..(Len(fused_results) - 1) :
              RGe(fused_results[k].combined_score, fused_results[k + 1].combined_score)
        /\ \A e \in Entries(fused_results) :
              /\ e.normalized_score = Rescaled(e.combined_score)
              /\ RLe(Zero, e.normalized_score) /\ RLe(e.normalized_score, One)
        /\ fused_results # <<>> => fused_results[1].normalized_score = One

\* C15 witness: a fused list of two documents found by both paths, with different scores.
C15_Witness ==
    /\ pc = "fused"
    /\ dense_results # <<>> /\ sparse_results # <<>>
    /\ Len(fused_results) = 2
    /\ fused_results[1].normalized_score = One
    /\ fused_results[2].normalized_score = Zero

DocIds(results) == {results[k].document.doc_id : k \in 1..Len(results)}

\* C16 (as stated): every fused entry's retrieval_types has no duplicates and holds
\* 'dense' exactly when its document id is in the dense list and 'sparse' exactly when it
\* is in the sparse list.
C16_RetrievalTypesIsProvenanceSet ==
    pc = "fused" =>
        \A e \in Entries(fused_results) :
            /\ \A i, j \in 1..Len(e.retrieval_types) :
                  i # j => e.retrieval_types[i] # e.retrieval_types[j]
            /\ InSeq("dense", e.retrieval_types) <=> e.doc_id \in DocIds(dense_results)
            /\ InSeq("sparse", e.retrieval_types) <=> e.doc_id \in DocIds(sparse_results)

\* C17 (as stated): an empty or whitespace-only query, with any history, is
\* conversational with no categories, and retrieve returns use_rag = false without
\* searching either index.
C17_BlankQueryShortCircuits ==
    (pc # "idle" /\ strip(query) = "") =>
        /\ classification.primary_type = "conversational"
        /\ classification.categories = <<>>
        /\ pc = "returned"
        /\ ~result.use_rag
        /\ searches = <<>>

\* what each call of the pair returns when it runs alone
AloneResults ==
    [q \in ConcurrentQueries, h \in Histories, k \in FinalTopKs |-> retrieve(q, h, k)]

ConcurrentInputs == <<query, history, final_top_k>>

PrimaryTier == keep_at_least(fused_results, params.score_threshold)
RelaxedTier == keep_at_least(fused_results, RMul(params.score_threshold, Half))
TopThreeTier ==
    SubSeq(SortDesc(fused_results, "normalized_score"), 1,
           IF Len(fused_results) < 3 THEN Len(fused_results) ELSE 3)

\* C19: the escalator's result is the output of the first of the tiers primary
\* (normalized_score >= score_threshold), relaxed (normalized_score >= 0.5 *
\* score_threshold), top-3 by normalized_score that is non-empty; a later tier
\* decides the result only when every earlier tier came out empty and the input
\* is non-empty.
C19_FirstNonEmptyTier ==
    pc = "filtered"
    => filtered_results =
          (IF fused_results = <<>> THEN <<>>
           ELSE IF PrimaryTier # <<>> THEN PrimaryTier
           ELSE IF RelaxedTier # <<>> THEN RelaxedTier
           ELSE TopThreeTier)

\* the relaxed tier decided, and neither the primary tier nor the top-3 bypass would
\* have given the same list
C19_Witness ==
    /\ pc = "filtered"
    /\ PrimaryTier = <<>>
    /\ RelaxedTier # <<>>
    /\ filtered_results = RelaxedTier
    /\ filtered_results # TopThreeTier

\* the list the escalator holds when it reaches the forced-sparse guard
\* (retriever.py 175): what it returns for the same input with force_sparse off
BeforeForcedSparse ==
    apply_dynamic_threshold(fused_results, [params EXCEPT !.force_sparse = FALSE])

\* C20: for every fused list and every parameter record, force_sparse = true
\* included, the forced-sparse rescue tier is never executed: for a non-empty
\* fused list the tiers before it have already produced a non-empty result, and
\* the escalator returns that result whatever force_sparse is.
C20_ForcedSparseNeverRuns ==
    pc = "filtered"
    => /\ fused_results # <<>> => BeforeForcedSparse # <<>>
       /\ filtered_results = BeforeForcedSparse

\* force_sparse is on, nothing passes either threshold, and the entry with the highest
\* sparse_score is not what the escalator returned
C20_Witness ==
    /\ pc = "filtered"
    /\ params.force_sparse
    /\ Len(fused_results) >= 2
    /\ RelaxedTier = <<>>
    /\ filtered_results # <<max_by(fused_results, "sparse_score")>>

\* the index reads of a call that retrieves: the dense index, then the sparse index,
\* once each, both with the expanded query
BothSearched ==
    /\ Len(searches) = 2
    /\ searches[1].index = "dense" /\ searches[1].text = expanded_query
    /\ searches[2].index = "sparse" /\ searches[2].text = expanded_query

\* C21: when retrieve returns use_rag = false, neither index was searched during
\* the call, documents is empty and query_type is conversational; when it returns
\* use_rag = true, each index was searched exactly once, both with the expanded
\* query, and both reads were over before fusion started.
C21_SearchesMatchUseRag ==
    /\ (pc = "returned" /\ ~result.use_rag)
          => /\ searches = <<>>
             /\ result.documents = <<>>
             /\ result.query_type = "conversational"
    /\ (pc = "returned" /\ result.use_rag) => BothSearched
    /\ pc = "fuse" => BothSearched

\* a call that returned use_rag = true after searching with a query that expansion
\* had changed
C21_Witness ==
    /\ pc = "returned"
    /\ result.use_rag
    /\ expanded_query # query
    /\ BothSearched

\* the history holding only the query of the turn before turn n
LastEntryOnly(n) == IF n = 1 THEN <<>> ELSE <<[query |-> result[n - 1].query]>>

\* turn n went through retrieval, and with this use_rag
TurnUseRag(n) == result[n].success /\ result[n].retrieval_result.use_rag

InformationalTurn(n) ==
    InformationalCategories(classify_query_comprehensive(result[n].query).categories) # {}

\* a conversational query's use_rag is decided by the last entry of the history alone
UseRagFollowsLastEntry ==
    \A n \in 1..Len(result) :
        (result[n].success /\ classify_query(result[n].query) = "conversational")
        => (TurnUseRag(n) <=> should_use_rag(result[n].query, LastEntryOnly(n)))

\* C22 (as stated): in a session whose turns are all appended to the history, a
\* conversational query's use_rag depends on the history only through its last
\* entry, so the first social turn after an informational turn gets use_rag = true
\* and a second consecutive social turn gets use_rag = false.
C22_SocialTurnsFollowLastEntry ==
    /\ UseRagFollowsLastEntry
    /\ \A n \in 2..Len(result) :
          (result[n].success /\ IsSocialUtterance(result[n].query))
          => /\ InformationalTurn(n - 1) => TurnUseRag(n)
             /\ IsSocialUtterance(result[n - 1].query) => ~TurnUseRag(n)

\* the window of the caller of this session
WindowOfCaller == IF pc \in {"prompt", "ended"} THEN CliWindow ELSE WebWindow

\* entry i of the history is the turn at the same place among the last turns processed
IsTurnOfHistory(i) ==
    LET turn == result[Len(result) - Len(history) + i]
    IN /\ history[i].query = turn.query
       /\ history[i].response = turn.response
       /\ strip(lower(turn.query)) \notin {"", "test", "history"}

\* a step that read an empty query or, on the command line, test or history
ReadsNoTurn ==
    \/ pc' = "asked"
    \/ pc' = "prompt" /\ lower(query') \in {"", "test", "history"}

\* C23: after any sequence of processed turns the caller's history holds at most
\* the window of entries (10 on the command line, 20 in the web session), they are
\* the most recent processed turns in chronological order with the most recent
\* last, and an empty query and the commands test and history add no entry.
C23_HistoryIsRecentWindow ==
    /\ [](/\ Len(history) <= WindowOfCaller
          /\ Len(history) <= Len(result)
          /\ pc \in {"prompt", "ended"}
                => Len(history) = (IF Len(result) < CliWindow THEN Len(result) ELSE CliWindow)
          /\ \A i \in 1..Len(history) : IsTurnOfHistory(i))
    /\ [][ReadsNoTurn => (history' = history /\ result' = result)]_vars

\* twelve turns on the command line, the third of which failed: the failed turn is now
\* the oldest entry of the history
C23_Witness ==
    /\ pc = "prompt"
    /\ Len(result) = 12
    /\ Len(history) = CliWindow
    /\ ~result[3].success
    /\ history[1].response = result[3].response
    /\ history[2].response # history[1].response

\* what process_query returned for turn n is the success result or the error result
IsProcessQueryResult(n) ==
    IF result[n].success
    THEN result[n].retrieval_result # None /\ result[n].response = "answer"
    ELSE /\ result[n].retrieval_result = None
         /\ result[n].response = "I encountered an error"
         /\ result[n].error \in {"raised by retrieve", "raised by generate_response"}

\* the last turn came after a failed turn and its use_rag was decided on the failed
\* turn's query
DecidedOnFailedTurn ==
    (Len(result) >= 2 /\ ~result[Len(result) - 1].success /\ result[Len(result)].success)
    => (TurnUseRag(Len(result))
          <=> should_use_rag(result[Len(result)].query, LastEntryOnly(Len(result))))

\* C30: process_query never raises: when retrieval or answer generation raises it
\* returns success = false, retrieval_result = None and an error message as the
\* response; both callers still append that turn to the history, and the failed
\* turn's query is the one consulted for the next turn's use_rag decision.
C30_FailedTurnIsAnsweredAndKept ==
    /\ pc \in {"prompt", "serving"}
    /\ Len(history) = Len(result)
    /\ \A n \in 1..Len(result) :
          /\ IsProcessQueryResult(n)
          /\ history[n].query = result[n].query
          /\ history[n].response = result[n].response
    /\ DecidedOnFailedTurn

\* retrieval raised in the turn "Pune", and the turn "thanks" right after it was
\* retrieved for
C30_Witness ==
    /\ Len(result) = 2
    /\ ~result[1].success /\ result[1].error = "raised by retrieve"
    /\ result[1].query = "Pune" /\ history[1].query = "Pune"
    /\ result[2].query = "thanks"
    /\ TurnUseRag(2)

\* the places in query_patterns of the detected categories
DetectedPlaces ==
    {k \in 1..Len(query_patterns) : InSeq(query_patterns[k].name, classification.categories)}

\* C24: for every set of detected categories complexity_score is 2 if analytical is
\* detected, plus 1 if numeric is detected, plus 1 if two or more categories are
\* detected, and nothing for any other category; detecting one more category
\* never lowers the score.
C24_ComplexityScoreIsWeightedCount ==
    pc = "scored"
    => /\ classification.complexity_score =
             (IF InSeq("analytical", classification.categories) THEN 2 ELSE 0)
             + (IF InSeq("numeric", classification.categories) THEN 1 ELSE 0)
             + (IF Cardinality(DetectedPlaces) >= 2 THEN 1 ELSE 0)
       /\ \A k \in 1..Len(query_patterns) :
             complexity_of(categories_at(DetectedPlaces \cup {k}, 1))
                >= classification.complexity_score

\* analytical, numeric and location detected together
C24_Witness ==
    /\ pc = "scored"
    /\ classification.categories = <<"location", "analytical", "numeric">>
    /\ classification.complexity_score = 4

\* C25: in retrieve, where the escalator gets the list fuse returned and the
\* parameters of get_retrieval_params, the primary tier is non-empty for every
\* non-empty fused list, because the first fused entry has normalized_score 1.0
\* and score_threshold < 1; the relaxed tier and the top-3 bypass are never entered.
C25_PrimaryTierSufficesInRetrieve ==
    (pc = "returned" /\ result.use_rag /\ fused_results # <<>>)
    => /\ fused_results[1].normalized_score = One
       /\ RLt(params.score_threshold, One)
       /\ PrimaryTier # <<>>
       /\ filtered_results = PrimaryTier

\* the primary tier kept the first entry of the fused list and dropped another one
C25_Witness ==
    /\ pc = "returned"
    /\ result.use_rag
    /\ Len(fused_results) >= 2
    /\ filtered_results # <<>>
    /\ Len(filtered_results) < Len(fused_results)

\* the places of a document id in a result list
PlacesOf(results, doc_id) == {k \in 1..Len(results) : results[k].document.doc_id = doc_id}

FirstPlace(places) == CHOOSE k \in places : \A j \in places : k <= j
LastPlace(places) == CHOOSE k \in places : \A j \in places : j <= k

RECURSIVE SumAt(_, _)
SumAt(scores, places) ==
    IF places = {} THEN Zero
    ELSE RAdd(scores[LastPlace(places)], SumAt(scores, places \ {LastPlace(places)}))

\* the entry is what the two loops of the fusion leave for its document id
IsMergeOf(e, dense_norm, sparse_norm) ==
    LET in_dense == PlacesOf(dense_results, e.doc_id)
        in_sparse == PlacesOf(sparse_results, e.doc_id)
    IN /\ in_dense # {} => /\ e.document = dense_results[LastPlace(in_dense)].document
                           /\ e.dense_score = dense_norm[LastPlace(in_dense)]
       /\ in_dense = {} => /\ e.document = sparse_results[FirstPlace(in_sparse)].document
                           /\ e.dense_score = Zero
       /\ in_sparse # {} => e.sparse_score = sparse_norm[LastPlace(in_sparse)]
       /\ in_sparse = {} => e.sparse_score = Zero
       /\ e.combined_score =
             RAdd(IF in_dense = {} THEN Zero
                  ELSE RMul(dense_norm[LastPlace(in_dense)], params.dense_weight),
                  RMul(SumAt(sparse_norm, in_sparse), params.sparse_weight))

CombinedScores == {fused_results[k].combined_score : k \in 1..Len(fused_results)}

IsLeastCombined(e) == \A k \in 1..Len(fused_results) : RLe(e.combined_score, fused_results[k].combined_score)

\* C27: in retrieve, when the fused list holds at least two different
\* combined_score values, every entry with the least combined_score has
\* normalized_score 0.0 and is left out of documents; a fused list of two entries
\* with different scores yields exactly one document.
C27_LeastCombinedIsExcluded ==
    (pc = "returned" /\ result.use_rag /\ Cardinality(CombinedScores) >= 2)
    => /\ \A e \in Entries(fused_results) :
             IsLeastCombined(e)
             => (e.normalized_score = Zero /\ e \notin Entries(result.documents))
       /\ Len(fused_results) = 2 => Len(result.documents) = 1

\* two fused entries with different scores and room for two documents
C27_Witness ==
    /\ pc = "returned"
    /\ result.use_rag
    /\ final_top_k = 2
    /\ Len(fused_results) = 2
    /\ Cardinality(CombinedScores) = 2
    /\ Len(result.documents) = 1

\* the entries of fused that are in documents, in the order of fused
KeptOf(fused, documents) ==
    LET IsKept(e) == e \in Entries(documents)
    IN SelectSeq(fused, IsKept)

\* C28: for every retrieve call with use_rag = true, documents is a sub-list of
\* fused_results (the same entries, none added or altered), in non-increasing
\* normalized_score order, of length at most final_top_k, and the returned
\* fused_results is the list that fuse_results produced.
C28_DocumentsAreSubListOfFused ==
    (pc = "returned" /\ result.use_rag)
    => /\ result.documents = KeptOf(result.fused_results, result.documents)
       /\ \A i \in 1..Len(result.documents) : \A j \in i..Len(result.documents) :
             RLe(result.documents[j].normalized_score, result.documents[i].normalized_score)
       /\ Len(result.documents) <= final_top_k
       /\ result.fused_results = fuse_results(dense_results, sparse_results, params).value
       /\ fused_results = result.fused_results

\* the threshold kept more entries than final_top_k and the truncation cut them
C28_Witness ==
    /\ pc = "returned"
    /\ result.use_rag
    /\ Len(filtered_results) > final_top_k
    /\ Len(result.documents) = final_top_k
    /\ Len(result.documents) < Len(result.fused_results)

IsInitialised(instance) == instance.retriever # None /\ instance.generator # None

SystemIsReady == ai_system # None /\ IsInitialised(Instance(ai_system))

ProcessQueryOnReadySystem ==
    \A r \in Requests :
        (pc[r] = "process_query" /\ query[r] \in {"/api/chat", "/api/search"})
        => IsInitialised(Instance(history[r]))

\* C29: in every reachable state of the web application, under any interleaving
\* of concurrent requests, system_initialized = true implies that ai_system is set
\* and its retriever and generator are initialised, and /api/chat and /api/search
\* never call process_query on an uninitialised system.
C29_InitializedSystemIsReady ==
    /\ system_initialized => SystemIsReady
    /\ ProcessQueryOnReadySystem
====
